---- MODULE Spec2Model ----
(***************************************************************************)
(* State-machine model of the CAN interface controller of libdigiapix:     *)
(* src/src/can.c (handle lifecycle, callback registry, dispatch thread,    *)
(* transmission), src/src/can_netlink.c (configuration over netlink) and   *)
(* the private data types of src/src/include/private/_can.h.               *)
(*                                                                         *)
(* One handle (can_if_t + can_priv_t) is modelled.  The dispatch thread    *)
(* ldx_can_thr is a process with its own program counter, the API calls    *)
(* are made by the caller threads of Callers.  A call that takes the       *)
(* handle's mutex is split in two steps, the pthread_mutex_lock and the    *)
(* rest of the function up to its return, so that every interleaving the   *)
(* mutex allows is explored.                                               *)
(***************************************************************************)
EXTENDS Integers, Sequences, FiniteSets, TLC

(***************************************************************************)
(* Bounds of the model.                                                    *)
(***************************************************************************)
\* Total number of register/unregister calls made in one behaviour.
MaxOps == 3
\* Total number of frames the bus delivers to the sockets in one behaviour.
MaxFrames == 2
\* Total number of frames sent with ldx_can_tx_frame in one behaviour.
MaxTx == 1

(***************************************************************************)
(* Program constants: the error enumeration of can.h.                      *)
(***************************************************************************)
CAN_ERROR_NONE == 0
CAN_ERROR_NULL_INTERFACE == 1
CAN_ERROR_NO_MEM == 3
CAN_ERROR_NL_GET_STATE == 4
CAN_ERROR_NL_START == 5
CAN_ERROR_NL_STOP == 6
CAN_ERROR_NL_STATE_MISSMATCH == 7
CAN_ERROR_NL_BITRATE == 8
CAN_ERROR_NL_RESTART == 9
CAN_ERROR_NL_SET_RESTART_MS == 10
CAN_ERROR_NL_GET_RESTART_MS == 11
CAN_ERROR_NL_RSTMS_MISSMATCH == 12
CAN_ERROR_NL_SET_CTRL_MODE == 13
CAN_ERROR_NL_GET_CTRL_MODE == 14
CAN_ERROR_NL_CTRL_MISSMATCH == 15
CAN_ERROR_NL_GET_DEV_STATS == 16
CAN_ERROR_NL_BT_MISSMATCH == 17
CAN_ERROR_NL_SET_BIT_TIMING == 18
CAN_ERROR_NL_GET_BIT_TIMING == 19
CAN_ERROR_NL_GET_BIT_ERR_CNT == 20
CAN_ERROR_NL_BR_MISSMATCH == 21
CAN_ERROR_TX_SKT_CREATE == 22
CAN_ERROR_TX_SKT_WR == 23
CAN_ERROR_TX_SKT_BIND == 24
CAN_ERROR_TX_RETRY_LATER == 25
CAN_ERROR_INCOMP_FRAME == 26
CAN_ERROR_NETWORK_DOWN == 27
CAN_ERROR_RX_SKT_CREATE == 28
CAN_ERROR_RX_SKT_BIND == 29
CAN_ERROR_NOT_CANFD == 39
CAN_ERROR_THREAD_CREATE == 40
CAN_ERROR_THREAD_ALLOC == 41
CAN_ERROR_THREAD_MUTEX_INIT == 42
CAN_ERROR_REG_ERR_HDLR == 44
CAN_ERROR_RX_CB_NOT_FOUND == 46
CAN_ERROR_RX_CB_ALR_REG == 47
CAN_ERROR_ERR_CB_NOT_FOUND == 48
CAN_ERROR_ERR_CB_ALR_REG == 49
\* stdlib's EXIT_SUCCESS, the value ldx_can_free starts from.
EXIT_SUCCESS == 0
\* The "unconfigured" values of the configuration fields (can.h:37-39).
LDX_CAN_INVALID_BITRATE == 0
LDX_CAN_INVALID_RESTART_MS == 0
LDX_CAN_UNCONFIGURED_MASK == 0
\* linux/can.h: sizeof(struct can_frame) and sizeof(struct canfd_frame).
CAN_MTU == 16
CANFD_MTU == 72
\* The largest value of frame->len, an unsigned char.
U8_MAX == 255

(***************************************************************************)
(* The actors and the inputs they draw from.                               *)
(***************************************************************************)
\* Threads of the application that call the API.
Callers == {"c1", "c2"}
\* Receive callbacks (ldx_can_rx_cb_t function pointers) the callers own.
RxCbs == {"rxA", "rxB"}
\* Error callbacks (ldx_can_error_cb_t) the callers own.
ErrCbs == {"errA", "errB"}
\* The static default error handler of can.c, registered by ldx_can_init.
ldx_can_default_error_handler == "default"
\* Descriptors open in the process before the library opens any: stdio.
StdFds == {0, 1, 2}

\* Frames the bus may deliver: a data frame, a data frame whose ancillary
\* data carries a dropped-frame count (SO_RXQ_OVFL), and an error frame
\* (can_id & CAN_ERR_FLAG).  dropf is the count found in the ancillary data.
Frames == { [id |-> "f1", err |-> FALSE, dropf |-> 0],
            [id |-> "f2", err |-> FALSE, dropf |-> 7],
            [id |-> "e1", err |-> TRUE,  dropf |-> 0] }

VARIABLES
    alloc,          \* the handle (can_if_t and can_priv_t) is allocated
    life,           \* lifecycle: "unbound","initfailed","started","stopped","freed"
    cfg,            \* cif->cfg: [process_header, canfd_enabled]
    dropped_frames, \* cif->dropped_frames
    tx_skt,         \* pdata->tx_skt
    can_thr,        \* pdata->can_thr: "null", "valid" or "dangling" (freed)
    mutex_st,       \* pdata->mutex: "zero" (calloc), "init", "destroyed"
    mutex_owner,    \* who holds pdata->mutex: "none", "thr" or a caller
    can_fds,        \* pdata->can_fds
    maxfd,          \* pdata->maxfd
    rx_cb_list,     \* pdata->rx_cb_list_head: sequence of [handler, rx_skt]
    err_cb_list,    \* pdata->err_cb_list_head: sequence of handlers
    open_fds,       \* descriptors open in the process
    rxq,            \* kernel receive queue of each socket descriptor
    skerr,          \* sockets with a pending ENETDOWN socket error
    thr_pc,         \* position of ldx_can_thr
    thr_fds,        \* its local fds after select()
    thr_cur,        \* its list cursor rx_cb: the rx_skt of the entry, or -1
    thr_freed,      \* the entry the cursor points to has been freed
    thr_ret,        \* its local ret: result of the last socket it processed
    thr_sel,        \* what select() returned in the iteration in progress
    cancel_pending, \* pthread_cancel has been requested for the thread
    pc,             \* per caller: the call in progress
    arg,            \* per caller: the callback argument of that call
    last,           \* the last completed call: [op, cb, ret]
    calls,          \* callbacks invoked in the current dispatch iteration
    uaf,            \* the thread has read freed memory
    bad_use,        \* resources ldx_can_free used that were never created
    n_reg,          \* successful register calls per list
    n_unreg,        \* successful unregister calls per list
    reg_order,      \* per list: the registered callbacks, oldest registration first
    ops,            \* register/unregister calls made
    arrived,        \* frames delivered by the bus
    nl_kern,        \* how the kernel answers the netlink requests and the MTU ioctl
    nl_log,         \* netlink requests issued by the last operation, in order
    tx_wr,          \* the last write() on the transmit socket: <<[len, size, ...]>>
    n_tx            \* ldx_can_tx_frame calls made

handle_vars == <<alloc, life, cfg, dropped_frames, tx_skt, can_thr, mutex_st,
                 mutex_owner, can_fds, maxfd, rx_cb_list, err_cb_list>>
kernel_vars == <<open_fds, rxq, skerr, arrived>>
thread_vars == <<thr_pc, thr_fds, thr_cur, thr_freed, thr_ret, thr_sel, cancel_pending,
                 calls, uaf>>
caller_vars == <<pc, arg, last, n_reg, n_unreg, reg_order, ops>>
netlink_vars == <<nl_kern, nl_log>>
tx_vars == <<tx_wr, n_tx>>
vars == <<handle_vars, kernel_vars, thread_vars, caller_vars, bad_use,
          netlink_vars, tx_vars>>

(***************************************************************************)
(* Helpers.                                                                *)
(***************************************************************************)
Range(s) == { s[i] : i \in 1..Len(s) }

\* socket(): the kernel hands out the lowest descriptor that is not open.
LowestFreeFd(open) ==
    CHOOSE n \in 0..Cardinality(open) :
        n \notin open /\ \A m \in 0..(n - 1) : m \in open

\* The descriptors that ever appear in the model.
FdUniverse == 0..(Cardinality(StdFds) + Cardinality(RxCbs) + 1)

\* _list.h: list_add links the new entry
\* into the list; the entries are visited by list_for_each_entry from the
\* first of the sequence to the last.
list_add(entry, list) == Append(list, entry)

\* _list.h: list_del unlinks the entry at position i.
list_del(list, i) == SubSeq(list, 1, i - 1) \o SubSeq(list, i + 1, Len(list))

\* A faulty FD_CLR that leaves the set as it is.
FD_CLR_skip(fd, set) == set

\* A faulty FD_SET that leaves the set as it is.
FD_SET_skip(fd, set) == set

\* FD_SET and FD_CLR on an fd_set.
FD_SET(fd, set) == set \cup {fd}

FD_CLR(fd, set) == set \ {fd}

\* A faulty lookup that never finds the callback.
find_rxcb_never(list, cb) == 0

\* find_rxcb_by_function: position of the first entry whose handler is cb,
\* 0 (NULL) when there is none.
find_rxcb_by_function(list, cb) ==
    IF \E i \in 1..Len(list) : list[i].handler = cb
    THEN CHOOSE i \in 1..Len(list) :
            list[i].handler = cb /\ \A j \in 1..(i - 1) : list[j].handler # cb
    ELSE 0

\* A faulty lookup that takes the first entry of the error list for the one
\* asked for.
find_errcb_first(list, cb) == IF list = <<>> THEN 0 ELSE 1

\* find_errcb_by_function: the same on the error list.
find_errcb_by_function(list, cb) ==
    IF \E i \in 1..Len(list) : list[i] = cb
    THEN CHOOSE i \in 1..Len(list) :
            list[i] = cb /\ \A j \in 1..(i - 1) : list[j] # cb
    ELSE 0

\* A can_if_cfg_t with every field zero, as calloc and memset leave it.  The
\* model keeps the fields the code reads; bit_timing stands for
\* bit_timing.bitrate and ctrl_mode for ctrl_mode.mask.
ZeroCfg ==
    [nl_cmd_verify |-> FALSE, canfd_enabled |-> FALSE, process_header |-> FALSE,
     bitrate |-> 0, dbitrate |-> 0, restart_ms |-> 0, bit_timing |-> 0,
     ctrl_mode |-> 0]

\* ldx_can_set_defconfig applied to a zeroed structure.
ldx_can_set_defconfig ==
    [ZeroCfg EXCEPT !.nl_cmd_verify = TRUE,
                    !.canfd_enabled = FALSE,
                    !.process_header = TRUE,
                    !.bitrate = LDX_CAN_INVALID_BITRATE,
                    !.dbitrate = LDX_CAN_INVALID_BITRATE,
                    !.restart_ms = LDX_CAN_INVALID_RESTART_MS,
                    !.ctrl_mode = LDX_CAN_UNCONFIGURED_MASK]

\* The configurations ldx_can_init is given.
Cfgs == { [ldx_can_set_defconfig EXCEPT !.process_header = p] : p \in BOOLEAN }

(***************************************************************************)
(* The netlink operations of can_netlink.c.  Each is an operator that      *)
(* gives the value returned and the libsocketcan requests issued, in       *)
(* order: [ret, log].  cif is NULL or the handle, verify is the value of   *)
(* cif->cfg.nl_cmd_verify, k says how the kernel answers.                  *)
(***************************************************************************)
NULL == "NULL"

Handles == {NULL, "cif"}

\* The libsocketcan requests the library issues.
SetRequests ==
    {"can_set_bitrate", "can_set_data_bitrate", "can_set_restart_ms",
     "can_set_bittiming", "can_set_data_bittiming", "can_set_ctrlmode"}

GetRequests ==
    {"can_get_bittiming", "can_get_data_bittiming", "can_get_restart_ms",
     "can_get_ctrlmode", "can_get_state", "can_get_device_stats",
     "can_get_berr_counter"}

DoRequests == {"can_do_start", "can_do_stop", "can_do_restart"}

Requests == SetRequests \cup GetRequests \cup DoRequests

\* The values a caller asks for in a setter; 0 is the unconfigured value.
Values == {0, 1}

\* How the kernel answers: fail is the request it rejects ("none": it
\* accepts all), skew is the difference between a value written and the
\* value read back afterwards (0: it reads back what was written), state is
\* the interface state it reports ("follow": the state last requested), mtu
\* is the MTU of the interface.
NlKerns ==
    [fail : Requests \cup {"none"}, skew : {0, 1},
     state : {"follow", "CAN_STATE_BUS_OFF"}, mtu : {CAN_MTU, CANFD_MTU}]

\* The kernel that accepts every request and follows it, on an FD interface.
GoodKern == [fail |-> "none", skew |-> 0, state |-> "follow", mtu |-> CANFD_MTU]

\* The value can_get_*() reads after v has been written.
KernelReads(k, v) == v + k.skew

\* The state can_get_state() reads after the request req.
StateRead(k, req) ==
    IF k.state = "follow"
    THEN (IF req = "can_do_stop" THEN "CAN_STATE_STOPPED" ELSE "CAN_STATE_ERROR_ACTIVE")
    ELSE k.state

\* A faulty getter that issues its request before looking at the handle.
nl_get_unchecked(cif, k, get, e_get) ==
    IF k.fail = get THEN [ret |-> -e_get, log |-> <<get>>]
    ELSE IF cif = NULL THEN [ret |-> -CAN_ERROR_NULL_INTERFACE, log |-> <<get>>]
    ELSE [ret |-> CAN_ERROR_NONE, log |-> <<get>>]

\* The shape of the three getters (can_netlink.c:40-89).
nl_get(cif, k, get, e_get) ==
    IF cif = NULL THEN [ret |-> -CAN_ERROR_NULL_INTERFACE, log |-> <<>>]
    ELSE IF k.fail = get THEN [ret |-> -e_get, log |-> <<get>>]
    ELSE [ret |-> CAN_ERROR_NONE, log |-> <<get>>]

ldx_can_get_state(cif, k) ==
    nl_get(cif, k, "can_get_state", CAN_ERROR_NL_GET_STATE)

ldx_can_get_dev_stats(cif, k) ==
    nl_get(cif, k, "can_get_device_stats", CAN_ERROR_NL_GET_DEV_STATS)

ldx_can_get_bit_error_counter(cif, k) ==
    nl_get(cif, k, "can_get_berr_counter", CAN_ERROR_NL_GET_BIT_ERR_CNT)

\* A faulty start/stop/restart that accepts whatever state it reads.
nl_do_any_state(cif, verify, k, req, e_req, expected) ==
    IF cif = NULL THEN [ret |-> -CAN_ERROR_NULL_INTERFACE, log |-> <<>>]
    ELSE IF k.fail = req THEN [ret |-> -e_req, log |-> <<req>>]
    ELSE IF ~verify THEN [ret |-> CAN_ERROR_NONE, log |-> <<req>>]
    ELSE IF k.fail = "can_get_state"
         THEN [ret |-> -CAN_ERROR_NL_GET_STATE, log |-> <<req, "can_get_state">>]
    ELSE [ret |-> CAN_ERROR_NONE, log |-> <<req, "can_get_state">>]

\* The shape of ldx_can_start, ldx_can_stop and ldx_can_restart
\* (can_netlink.c:91-185): the request, then with verification the state is
\* read and compared with the expected one.
nl_do(cif, verify, k, req, e_req, expected) ==
    IF cif = NULL THEN [ret |-> -CAN_ERROR_NULL_INTERFACE, log |-> <<>>]
    ELSE IF k.fail = req THEN [ret |-> -e_req, log |-> <<req>>]
    ELSE IF ~verify THEN [ret |-> CAN_ERROR_NONE, log |-> <<req>>]
    ELSE IF k.fail = "can_get_state"
         THEN [ret |-> -CAN_ERROR_NL_GET_STATE, log |-> <<req, "can_get_state">>]
    ELSE IF StateRead(k, req) # expected
         THEN [ret |-> -CAN_ERROR_NL_STATE_MISSMATCH, log |-> <<req, "can_get_state">>]
    ELSE [ret |-> CAN_ERROR_NONE, log |-> <<req, "can_get_state">>]

\* The values ldx_can_start and ldx_can_stop give; the actions of the same
\* names below apply them to the handle.
StartResult(cif, verify, k) ==
    nl_do(cif, verify, k, "can_do_start", CAN_ERROR_NL_START, "CAN_STATE_ERROR_ACTIVE")

StopResult(cif, verify, k) ==
    nl_do(cif, verify, k, "can_do_stop", CAN_ERROR_NL_STOP, "CAN_STATE_STOPPED")

ldx_can_restart(cif, verify, k) ==
    nl_do(cif, verify, k, "can_do_restart", CAN_ERROR_NL_RESTART, "CAN_STATE_ERROR_ACTIVE")

\* A faulty setter that reads the value back and does not compare it.
nl_set_no_compare(cif, verify, k, v, set, get, e_set, e_get, e_mis) ==
    IF cif = NULL THEN [ret |-> -CAN_ERROR_NULL_INTERFACE, log |-> <<>>]
    ELSE IF k.fail = set THEN [ret |-> -e_set, log |-> <<set>>]
    ELSE IF ~verify THEN [ret |-> CAN_ERROR_NONE, log |-> <<set>>]
    ELSE IF k.fail = get THEN [ret |-> -e_get, log |-> <<set, get>>]
    ELSE [ret |-> CAN_ERROR_NONE, log |-> <<set, get>>]

\* The shape of the six setters (can_netlink.c:187-383): the set request,
\* then with verification the value is read back and compared with v.
nl_set(cif, verify, k, v, set, get, e_set, e_get, e_mis) ==
    IF cif = NULL THEN [ret |-> -CAN_ERROR_NULL_INTERFACE, log |-> <<>>]
    ELSE IF k.fail = set THEN [ret |-> -e_set, log |-> <<set>>]
    ELSE IF ~verify THEN [ret |-> CAN_ERROR_NONE, log |-> <<set>>]
    ELSE IF k.fail = get THEN [ret |-> -e_get, log |-> <<set, get>>]
    ELSE IF KernelReads(k, v) # v THEN [ret |-> -e_mis, log |-> <<set, get>>]
    ELSE [ret |-> CAN_ERROR_NONE, log |-> <<set, get>>]

ldx_can_set_bitrate(cif, verify, k, bitrate) ==
    nl_set(cif, verify, k, bitrate, "can_set_bitrate", "can_get_bittiming",
           CAN_ERROR_NL_BITRATE, CAN_ERROR_NL_GET_BIT_TIMING, CAN_ERROR_NL_BR_MISSMATCH)

ldx_can_set_data_bitrate(cif, verify, k, dbitrate) ==
    nl_set(cif, verify, k, dbitrate, "can_set_data_bitrate", "can_get_data_bittiming",
           CAN_ERROR_NL_BITRATE, CAN_ERROR_NL_GET_BIT_TIMING, CAN_ERROR_NL_BR_MISSMATCH)

ldx_can_set_restart_ms(cif, verify, k, restart_ms) ==
    nl_set(cif, verify, k, restart_ms, "can_set_restart_ms", "can_get_restart_ms",
           CAN_ERROR_NL_SET_RESTART_MS, CAN_ERROR_NL_GET_RESTART_MS,
           CAN_ERROR_NL_RSTMS_MISSMATCH)

ldx_can_set_bit_timing(cif, verify, k, bt) ==
    nl_set(cif, verify, k, bt, "can_set_bittiming", "can_get_bittiming",
           CAN_ERROR_NL_SET_BIT_TIMING, CAN_ERROR_NL_GET_BIT_TIMING,
           CAN_ERROR_NL_BT_MISSMATCH)

ldx_can_set_data_bit_timing(cif, verify, k, dbt) ==
    nl_set(cif, verify, k, dbt, "can_set_data_bittiming", "can_get_data_bittiming",
           CAN_ERROR_NL_SET_BIT_TIMING, CAN_ERROR_NL_GET_BIT_TIMING,
           CAN_ERROR_NL_BT_MISSMATCH)

ldx_can_set_ctrlmode(cif, verify, k, cm) ==
    nl_set(cif, verify, k, cm, "can_set_ctrlmode", "can_get_ctrlmode",
           CAN_ERROR_NL_SET_CTRL_MODE, CAN_ERROR_NL_GET_CTRL_MODE,
           CAN_ERROR_NL_CTRL_MISSMATCH)

\* The operations of can_netlink.c by name.
NlSetters ==
    {"set_bitrate", "set_data_bitrate", "set_restart_ms", "set_bit_timing",
     "set_data_bit_timing", "set_ctrlmode"}

NlOps ==
    NlSetters \cup {"get_state", "get_dev_stats", "get_bit_error_counter",
                    "start", "stop", "restart"}

\* The operation op called with handle cif and value v.
NlCall(op, cif, verify, k, v) ==
    CASE op = "get_state" -> ldx_can_get_state(cif, k)
      [] op = "get_dev_stats" -> ldx_can_get_dev_stats(cif, k)
      [] op = "get_bit_error_counter" -> ldx_can_get_bit_error_counter(cif, k)
      [] op = "start" -> StartResult(cif, verify, k)
      [] op = "stop" -> StopResult(cif, verify, k)
      [] op = "restart" -> ldx_can_restart(cif, verify, k)
      [] op = "set_bitrate" -> ldx_can_set_bitrate(cif, verify, k, v)
      [] op = "set_data_bitrate" -> ldx_can_set_data_bitrate(cif, verify, k, v)
      [] op = "set_restart_ms" -> ldx_can_set_restart_ms(cif, verify, k, v)
      [] op = "set_bit_timing" -> ldx_can_set_bit_timing(cif, verify, k, v)
      [] op = "set_data_bit_timing" -> ldx_can_set_data_bit_timing(cif, verify, k, v)
      [] op = "set_ctrlmode" -> ldx_can_set_ctrlmode(cif, verify, k, v)

\* The concatenation of the sequences of ss.
RECURSIVE Flatten(_)
Flatten(ss) == IF ss = <<>> THEN <<>> ELSE Head(ss) \o Flatten(Tail(ss))

\* Calls made one after the other with a return at the first error
\* (ret = f(); if (ret) return ret;): rs are the results the calls give, the
\* result is the value returned and the requests issued up to there.
RunCalls(rs) ==
    LET failed == { i \in 1..Len(rs) : rs[i].ret # 0 }
        n == IF failed = {} THEN Len(rs)
             ELSE CHOOSE i \in failed : \A j \in failed : i <= j
    IN [ret |-> IF failed = {} THEN 0 ELSE rs[n].ret,
        log |-> Flatten([i \in 1..n |-> rs[i].log])]

\* The configuration part of ldx_can_init (can.c:364-407): the setters it
\* calls for the configuration cfgin, each under its condition.
InitSetters(cfgin, k) ==
    LET v == cfgin.nl_cmd_verify
        steps ==
          << [on |-> cfgin.bitrate # LDX_CAN_INVALID_BITRATE,
              r  |-> ldx_can_set_bitrate("cif", v, k, cfgin.bitrate)],
             [on |-> cfgin.dbitrate # LDX_CAN_INVALID_BITRATE,
              r  |-> ldx_can_set_data_bitrate("cif", v, k, cfgin.dbitrate)],
             [on |-> cfgin.restart_ms # LDX_CAN_INVALID_RESTART_MS,
              r  |-> ldx_can_set_restart_ms("cif", v, k, cfgin.restart_ms)],
             \* can.c:392-393: the bit_timing branch calls ldx_can_set_restart_ms
             [on |-> cfgin.bit_timing # 0,
              r  |-> ldx_can_set_restart_ms("cif", v, k, cfgin.restart_ms)],
             [on |-> cfgin.ctrl_mode # LDX_CAN_UNCONFIGURED_MASK,
              r  |-> ldx_can_set_ctrlmode("cif", v, k, cfgin.ctrl_mode)] >>
        made == SelectSeq(steps, LAMBDA x : x.on)
    IN [i \in 1..Len(made) |-> made[i].r]

\* The kernel k, except that it rejects the request req when ~ok.
Rejecting(k, ok, req) == IF ok THEN k ELSE [k EXCEPT !.fail = req]

(***************************************************************************)
(* Initial state: the handle as ldx_can_request_by_name returns it.        *)
(***************************************************************************)
ldx_can_request_by_name ==
    /\ alloc = TRUE
    /\ life = "unbound"
    /\ cfg = ZeroCfg
    /\ dropped_frames = 0
    /\ tx_skt = 0
    /\ can_thr = "null"
    /\ mutex_st = "zero"
    /\ mutex_owner = "none"
    /\ can_fds = {}
    /\ maxfd = 0
    /\ rx_cb_list = <<>>
    /\ err_cb_list = <<>>

InitHandle ==
    /\ ldx_can_request_by_name
    /\ open_fds = StdFds
    /\ rxq = [fd \in FdUniverse |-> <<>>]
    /\ skerr = {}
    /\ arrived = 0
    /\ thr_pc = "none"
    /\ thr_fds = {}
    /\ thr_cur = -1
    /\ thr_freed = FALSE
    /\ thr_ret = 0
    /\ thr_sel = "none"
    /\ cancel_pending = FALSE
    /\ calls = <<>>
    /\ uaf = FALSE
    /\ pc = [c \in Callers |-> "idle"]
    /\ arg = [c \in Callers |-> "none"]
    /\ last = [op |-> "none", cb |-> "none", ret |-> 0]
    /\ n_reg = [l \in {"rx", "err"} |-> 0]
    /\ n_unreg = [l \in {"rx", "err"} |-> 0]
    /\ reg_order = [l \in {"rx", "err"} |-> <<>>]
    /\ ops = 0
    /\ bad_use = {}
    /\ nl_log = <<>>
    /\ tx_wr = <<>>
    /\ n_tx = 0

\* The kernel accepts and follows every netlink request.
Init ==
    /\ InitHandle
    /\ nl_kern = GoodKern

\* The kernel answers the netlink requests in any one of the ways of NlKerns.
InitNl ==
    /\ InitHandle
    /\ nl_kern \in NlKerns

(***************************************************************************)
(* ldx_can_init.  fail names the first step that fails: "nl" (the start    *)
(* request of ldx_can_start), "socket", "setup" (any step between socket() *)
(* and bind()), "reg" (malloc in ldx_can_register_error_handler),          *)
(* "thr_alloc", "mutex_init", "thr_create", or "none".  The netlink        *)
(* requests of the setters and the MTU are answered by nl_kern.            *)
(***************************************************************************)
InitFailPoints ==
    {"nl", "socket", "setup", "reg", "thr_alloc", "mutex_init", "thr_create", "none"}

\* The default handler cannot be registered: no memory, or already there.
InitRegFails(fail) ==
    fail = "reg" \/ find_errcb_by_function(err_cb_list, ldx_can_default_error_handler) # 0

ldx_can_init(c, cfgin, fail) ==
    LET fd == LowestFreeFd(open_fds)
        done(r, l) == /\ last' = [op |-> "init", cb |-> "none", ret |-> r]
                      /\ life' = l
        \* can.c:364-412: the setters, then ldx_can_start
        nl == RunCalls(Append(InitSetters(cfgin, nl_kern),
                   StartResult("cif", cfgin.nl_cmd_verify,
                               Rejecting(nl_kern, fail # "nl", "can_do_start"))))
        \* can.c:441-457: FD asked for on an interface without the FD MTU
        notfd == cfgin.canfd_enabled /\ nl_kern.mtu # CANFD_MTU
    IN
    /\ alloc
    /\ pc[c] = "idle"
    /\ life \in {"unbound", "initfailed"}
    /\ mutex_owner = "none"
    /\ cfg' = cfgin
    /\ UNCHANGED <<alloc, dropped_frames, mutex_owner, rx_cb_list>>
    /\ UNCHANGED <<rxq, skerr, arrived>>
    /\ UNCHANGED <<thr_fds, thr_cur, thr_freed, thr_ret, thr_sel, cancel_pending, calls, uaf>>
    /\ UNCHANGED <<pc, arg, n_reg, n_unreg, ops, bad_use, nl_kern, tx_vars>>
    /\ nl_log' = nl.log
    /\ reg_order' = IF nl.ret # 0 \/ fail \in {"socket", "setup"} \/ notfd
                        \/ InitRegFails(fail)
                     THEN reg_order
                     ELSE [reg_order EXCEPT !["err"] =
                              Append(@, ldx_can_default_error_handler)]
    /\ IF nl.ret # 0 THEN
           \* a setter or ldx_can_start failed: return before any socket
           /\ done(nl.ret, "initfailed")
           /\ UNCHANGED <<tx_skt, can_thr, mutex_st, can_fds, maxfd, err_cb_list, thr_pc>>
       ELSE IF fail = "socket" THEN
           /\ tx_skt' = -1
           /\ done(-CAN_ERROR_TX_SKT_CREATE, "initfailed")
           /\ UNCHANGED <<can_thr, mutex_st, can_fds, maxfd, err_cb_list, thr_pc>>
       ELSE IF fail = "setup" THEN
           \* err_skt_close: the socket is closed, tx_skt keeps its number
           /\ tx_skt' = fd
           /\ done(-CAN_ERROR_TX_SKT_BIND, "initfailed")
           /\ UNCHANGED <<can_thr, mutex_st, can_fds, maxfd, err_cb_list, thr_pc>>
       ELSE IF notfd THEN
           \* can.c:455: ret = CAN_ERROR_NOT_CANFD, then err_skt_close
           /\ tx_skt' = fd
           /\ done(CAN_ERROR_NOT_CANFD, "initfailed")
           /\ UNCHANGED <<can_thr, mutex_st, can_fds, maxfd, err_cb_list, thr_pc>>
       ELSE
           \* FD_ZERO, FD_SET, maxfd
           /\ tx_skt' = fd
           /\ can_fds' = {fd}
           /\ maxfd' = fd
           /\ IF InitRegFails(fail) THEN
                  /\ done(-CAN_ERROR_REG_ERR_HDLR, "initfailed")
                  /\ UNCHANGED <<can_thr, mutex_st, err_cb_list, thr_pc>>
              ELSE
                  /\ err_cb_list' = list_add(ldx_can_default_error_handler, err_cb_list)
                  /\ IF can_thr # "null" THEN
                         \* the thread is taken to exist already
                         /\ done(CAN_ERROR_NONE, "started")
                         /\ UNCHANGED <<can_thr, mutex_st, thr_pc>>
                     ELSE IF fail = "thr_alloc" THEN
                         /\ done(-CAN_ERROR_THREAD_ALLOC, "initfailed")
                         /\ UNCHANGED <<can_thr, mutex_st, thr_pc>>
                     ELSE IF fail = "mutex_init" THEN
                         \* err_thr_alloc: free(pdata->can_thr), not reset
                         /\ can_thr' = "dangling"
                         /\ done(-CAN_ERROR_THREAD_MUTEX_INIT, "initfailed")
                         /\ UNCHANGED <<mutex_st, thr_pc>>
                     ELSE IF fail = "thr_create" THEN
                         /\ can_thr' = "dangling"
                         /\ mutex_st' = "destroyed"
                         /\ done(-CAN_ERROR_THREAD_CREATE, "initfailed")
                         /\ UNCHANGED <<thr_pc>>
                     ELSE
                         /\ can_thr' = "valid"
                         /\ mutex_st' = "init"
                         /\ thr_pc' = "check"
                         /\ done(CAN_ERROR_NONE, "started")
    \* socket() at can.c:414; every failure exit after it closes the socket
    \* again (err_skt_close), the successful return leaves it open
    /\ open_fds' = IF life' = "started" THEN open_fds \cup {fd} ELSE open_fds

(***************************************************************************)
(* Kernel side of the sockets.                                             *)
(***************************************************************************)
\* close(fd): the descriptor leaves the process, its queue is dropped.
CloseFd(fd) ==
    /\ open_fds' = open_fds \ {fd}
    /\ rxq' = [rxq EXCEPT ![fd] = <<>>]
    /\ skerr' = skerr \ {fd}

\* The CAN sockets of the handle that are open and bound.
BoundSockets ==
    { fd \in open_fds \ StdFds :
        \/ (fd = tx_skt /\ life \in {"started", "stopped"})
        \/ \E i \in 1..Len(rx_cb_list) : rx_cb_list[i].rx_skt = fd }

\* The bus delivers frame f to the bound socket fd.  The transmit socket has
\* its receive filter disabled (can.c:473) and only gets error frames.
FrameArrives(fd, f) ==
    /\ alloc
    /\ arrived < MaxFrames
    /\ fd \in BoundSockets
    /\ fd = tx_skt => f.err
    /\ rxq' = [rxq EXCEPT ![fd] = Append(@, f)]
    /\ arrived' = arrived + 1
    /\ UNCHANGED <<open_fds, skerr>>
    /\ UNCHANGED <<handle_vars, thread_vars, caller_vars, bad_use, netlink_vars, tx_vars>>

\* The interface goes down: every bound socket gets the socket error
\* ENETDOWN, which its next recvmsg reports once.
NetworkDown ==
    /\ alloc
    /\ BoundSockets # {}
    /\ skerr # BoundSockets
    /\ skerr' = BoundSockets
    /\ UNCHANGED <<open_fds, rxq, arrived>>
    /\ UNCHANGED <<handle_vars, thread_vars, caller_vars, bad_use, netlink_vars, tx_vars>>

(***************************************************************************)
(* The callers: pthread_mutex_lock at the start of a registry call.        *)
(***************************************************************************)
RegistryOps == {"reg_rx", "unreg_rx", "reg_err", "unreg_err"}

\* A faulty lock that is granted at once, whoever holds the mutex.
pthread_mutex_lock_nowait(t) ==
    mutex_owner' = t

\* A recursive lock, granted again to the thread that holds the mutex.
pthread_mutex_lock_recursive(t) ==
    /\ mutex_owner \in {"none", t}
    /\ mutex_owner' = t

\* pthread_mutex_lock(&pdata->mutex) by thread t: blocks until it is free.
pthread_mutex_lock(t) ==
    /\ mutex_owner = "none"
    /\ mutex_owner' = t

\* pthread_mutex_unlock(&pdata->mutex).
pthread_mutex_unlock ==
    mutex_owner' = "none"

\* Caller c enters a register/unregister call with callback cb and gets
\* the mutex (can.c:727, 770, 824, 1002).
BeginCall(c, op, cb) ==
    /\ alloc
    /\ life \in {"started", "stopped"}
    /\ pc[c] = "idle"
    /\ ops < MaxOps
    /\ op \in {"reg_rx", "unreg_rx"} => cb \in RxCbs
    /\ op \in {"reg_err", "unreg_err"} => cb \in ErrCbs
    /\ pthread_mutex_lock(c)
    /\ pc' = [pc EXCEPT ![c] = op]
    /\ arg' = [arg EXCEPT ![c] = cb]
    /\ ops' = ops + 1
    /\ UNCHANGED <<alloc, life, cfg, dropped_frames, tx_skt, can_thr, mutex_st,
                   can_fds, maxfd, rx_cb_list, err_cb_list>>
    /\ UNCHANGED <<kernel_vars, thread_vars, last, n_reg, n_unreg, reg_order, bad_use, netlink_vars, tx_vars>>

\* The call of caller c returns r.
Return(c, op, r) ==
    /\ pc' = [pc EXCEPT ![c] = "idle"]
    /\ arg' = [arg EXCEPT ![c] = "none"]
    /\ last' = [op |-> op, cb |-> arg[c], ret |-> r]

(***************************************************************************)
(* ldx_can_register_rx_handler, from the duplicate check to the return.    *)
(* fail names the first step that fails: "malloc", "socket", "fcntl",      *)
(* "setup" (the socket options and bind, reported with the code of bind),  *)
(* or "none".                                                              *)
(***************************************************************************)
RegRxFailPoints == {"malloc", "socket", "fcntl", "setup", "none"}

ldx_can_register_rx_handler(c, fail) ==
    LET cb == arg[c]
        fd == LowestFreeFd(open_fds)
    IN
    /\ pc[c] = "reg_rx"
    /\ pthread_mutex_unlock
    /\ UNCHANGED <<alloc, life, cfg, dropped_frames, tx_skt, can_thr, mutex_st,
                   err_cb_list>>
    /\ UNCHANGED <<rxq, skerr, arrived, thread_vars, n_unreg, ops, bad_use, netlink_vars, tx_vars>>
    /\ IF find_rxcb_by_function(rx_cb_list, cb) # 0 THEN
           /\ Return(c, "reg_rx", -CAN_ERROR_RX_CB_ALR_REG)
           /\ UNCHANGED <<rx_cb_list, can_fds, maxfd, open_fds, n_reg, reg_order>>
       ELSE IF fail = "malloc" THEN
           /\ Return(c, "reg_rx", -CAN_ERROR_NO_MEM)
           /\ UNCHANGED <<rx_cb_list, can_fds, maxfd, open_fds, n_reg, reg_order>>
       ELSE IF fail = "socket" THEN
           \* rx_err_free
           /\ Return(c, "reg_rx", -CAN_ERROR_RX_SKT_CREATE)
           /\ UNCHANGED <<rx_cb_list, can_fds, maxfd, open_fds, n_reg, reg_order>>
       ELSE IF fail = "fcntl" THEN
           \* rx_err_skt_close with ret still holding the result of fcntl
           /\ Return(c, "reg_rx", -1)
           /\ UNCHANGED <<rx_cb_list, can_fds, maxfd, open_fds, n_reg, reg_order>>
       ELSE IF fail = "setup" THEN
           \* rx_err_skt_close: the socket just opened is closed again
           /\ Return(c, "reg_rx", -CAN_ERROR_RX_SKT_BIND)
           /\ UNCHANGED <<rx_cb_list, can_fds, maxfd, open_fds, n_reg, reg_order>>
       ELSE
           /\ open_fds' = open_fds \cup {fd}
           /\ can_fds' = FD_SET(fd, can_fds)
           /\ maxfd' = IF fd > maxfd THEN fd ELSE maxfd
           /\ rx_cb_list' = list_add([handler |-> cb, rx_skt |-> fd], rx_cb_list)
           /\ n_reg' = [n_reg EXCEPT !["rx"] = @ + 1]
           /\ reg_order' = [reg_order EXCEPT !["rx"] = Append(@, cb)]
           /\ Return(c, "reg_rx", CAN_ERROR_NONE)

(***************************************************************************)
(* ldx_can_unregister_rx_handler, from the lookup to the return.           *)
(***************************************************************************)
ldx_can_unregister_rx_handler(c) ==
    LET cb == arg[c]
        i  == find_rxcb_by_function(rx_cb_list, cb)
    IN
    /\ pc[c] = "unreg_rx"
    /\ pthread_mutex_unlock
    /\ UNCHANGED <<alloc, life, cfg, dropped_frames, tx_skt, can_thr, mutex_st,
                   maxfd, err_cb_list>>
    /\ UNCHANGED <<arrived, thr_pc, thr_fds, thr_cur, thr_ret, thr_sel, cancel_pending, calls, uaf>>
    /\ UNCHANGED <<n_reg, ops, bad_use, netlink_vars, tx_vars>>
    /\ IF i = 0 THEN
           /\ Return(c, "unreg_rx", -CAN_ERROR_RX_CB_NOT_FOUND)
           /\ UNCHANGED <<rx_cb_list, can_fds, open_fds, rxq, skerr, n_unreg, thr_freed,
                          reg_order>>
       ELSE
           /\ can_fds' = FD_CLR(rx_cb_list[i].rx_skt, can_fds)
           /\ CloseFd(rx_cb_list[i].rx_skt)
           /\ rx_cb_list' = list_del(rx_cb_list, i)
           \* free(rxcb): a cursor still pointing at the entry dangles
           /\ thr_freed' = (thr_freed \/ thr_cur = rx_cb_list[i].rx_skt)
           /\ n_unreg' = [n_unreg EXCEPT !["rx"] = @ + 1]
           /\ reg_order' = [reg_order EXCEPT !["rx"] = SelectSeq(@, LAMBDA h : h # cb)]
           /\ Return(c, "unreg_rx", 0)

(***************************************************************************)
(* ldx_can_register_error_handler / ldx_can_unregister_error_handler.      *)
(***************************************************************************)
ldx_can_register_error_handler(c, fail) ==
    LET cb == arg[c] IN
    /\ pc[c] = "reg_err"
    /\ pthread_mutex_unlock
    /\ UNCHANGED <<alloc, life, cfg, dropped_frames, tx_skt, can_thr, mutex_st,
                   can_fds, maxfd, rx_cb_list>>
    /\ UNCHANGED <<kernel_vars, thread_vars, n_unreg, ops, bad_use, netlink_vars, tx_vars>>
    /\ IF find_errcb_by_function(err_cb_list, cb) # 0 THEN
           /\ Return(c, "reg_err", -CAN_ERROR_ERR_CB_ALR_REG)
           /\ UNCHANGED <<err_cb_list, n_reg, reg_order>>
       ELSE IF fail = "malloc" THEN
           /\ Return(c, "reg_err", -CAN_ERROR_NO_MEM)
           /\ UNCHANGED <<err_cb_list, n_reg, reg_order>>
       ELSE
           /\ err_cb_list' = list_add(cb, err_cb_list)
           /\ n_reg' = [n_reg EXCEPT !["err"] = @ + 1]
           /\ reg_order' = [reg_order EXCEPT !["err"] = Append(@, cb)]
           /\ Return(c, "reg_err", 0)

ldx_can_unregister_error_handler(c) ==
    LET cb == arg[c]
        i  == find_errcb_by_function(err_cb_list, cb)
    IN
    /\ pc[c] = "unreg_err"
    /\ pthread_mutex_unlock
    /\ UNCHANGED <<alloc, life, cfg, dropped_frames, tx_skt, can_thr, mutex_st,
                   can_fds, maxfd, rx_cb_list>>
    /\ UNCHANGED <<kernel_vars, thread_vars, n_reg, ops, bad_use, netlink_vars, tx_vars>>
    /\ IF i = 0 THEN
           /\ Return(c, "unreg_err", -CAN_ERROR_ERR_CB_NOT_FOUND)
           /\ UNCHANGED <<err_cb_list, n_unreg, reg_order>>
       ELSE
           /\ err_cb_list' = list_del(err_cb_list, i)
           /\ n_unreg' = [n_unreg EXCEPT !["err"] = @ + 1]
           /\ reg_order' = [reg_order EXCEPT !["err"] = SelectSeq(@, LAMBDA h : h # cb)]
           /\ Return(c, "unreg_err", 0)

(***************************************************************************)
(* The dispatch thread ldx_can_thr.                                        *)
(***************************************************************************)
\* A faulty walk of the error list that stops after its first entry.
call_err_cb_first(list, error) ==
    [i \in 1..(IF list = <<>> THEN 0 ELSE 1) |->
        [kind |-> "err", cb |-> list[i], code |-> error]]

\* A faulty walk of the error list, from its last entry to its first.
call_err_cb_reversed(list, error) ==
    [i \in 1..Len(list) |->
        [kind |-> "err", cb |-> list[Len(list) + 1 - i], code |-> error]]

\* ldx_can_call_err_cb: every handler of the error list is called with
\* error, in list order.  The result is the sequence of calls made.
ldx_can_call_err_cb(list, error) ==
    [i \in 1..Len(list) |-> [kind |-> "err", cb |-> list[i], code |-> error]]

\* A faulty frame processing that hands the frame to the receive callback
\* twice.
ProcessRxFrame_twice(frame, handler, ph, list) ==
    (IF ph /\ frame.dropf # 0
        THEN ldx_can_call_err_cb(list, "CAN_ERROR_DROPPED_FRAMES")
        ELSE <<>>)
    \o (IF frame.err THEN ldx_can_call_err_cb(list, frame.id) ELSE <<>>)
    \o <<[kind |-> "rx", cb |-> handler, code |-> frame.id],
         [kind |-> "rx", cb |-> handler, code |-> frame.id]>>

\* A faulty frame processing that reports dropped frames only after the
\* frame has been handed to the receive callback.
ProcessRxFrame_late(frame, handler, ph, list) ==
    (IF frame.err THEN ldx_can_call_err_cb(list, frame.id) ELSE <<>>)
    \o <<[kind |-> "rx", cb |-> handler, code |-> frame.id]>>
    \o (IF ph /\ frame.dropf # 0
        THEN ldx_can_call_err_cb(list, "CAN_ERROR_DROPPED_FRAMES")
        ELSE <<>>)

\* ldx_can_process_rx_socket, the processing of one frame read from the
\* socket of the entry whose handler is handler: the calls it makes.
ProcessRxFrame(frame, handler, ph, list) ==
    (IF ph /\ frame.dropf # 0
        THEN ldx_can_call_err_cb(list, "CAN_ERROR_DROPPED_FRAMES")
        ELSE <<>>)
    \o (IF frame.err THEN ldx_can_call_err_cb(list, frame.id) ELSE <<>>)
    \o <<[kind |-> "rx", cb |-> handler, code |-> frame.id]>>

\* ldx_can_process_tx_socket, the processing of one frame read from the
\* transmit socket.
ProcessTxFrame(frame, list) ==
    IF frame.err THEN ldx_can_call_err_cb(list, frame.id) ELSE <<>>

\* The descriptors select() reports readable: data queued or error pending.
Readable(fds) == { fd \in fds : rxq[fd] # <<>> \/ fd \in skerr }

\* while (pdata->run_thr): run_thr is set by the request and never cleared.
thr_check ==
    /\ thr_pc = "check"
    /\ alloc
    /\ thr_pc' = "lock"
    /\ UNCHANGED <<thr_fds, thr_cur, thr_freed, thr_ret, thr_sel, cancel_pending, calls, uaf>>
    /\ UNCHANGED <<handle_vars, kernel_vars, caller_vars, bad_use, netlink_vars, tx_vars>>

\* A dispatch thread that starts its iteration without taking the mutex.
ThrNoLock == UNCHANGED mutex_owner

\* pthread_mutex_lock at the top of the iteration (can.c:310).
ThrAcquire == pthread_mutex_lock("thr")

\* The same pthread_mutex_lock ends the wait of a callback that called a
\* register or unregister function (can.c:727, 770, 824, 1002): "cb_lock" is
\* the thread waiting there, "cb_call" the thread past the lock.
thr_lock ==
    /\ thr_pc \in {"lock", "cb_lock"}
    /\ alloc
    /\ ThrAcquire
    /\ thr_pc' = IF thr_pc = "lock" THEN "select" ELSE "cb_call"
    /\ UNCHANGED <<thr_fds, thr_cur, thr_freed, thr_ret, thr_sel, cancel_pending, calls, uaf>>
    /\ UNCHANGED <<alloc, life, cfg, dropped_frames, tx_skt, can_thr, mutex_st,
                   can_fds, maxfd, rx_cb_list, err_cb_list>>
    /\ UNCHANGED <<kernel_vars, caller_vars, bad_use, netlink_vars, tx_vars>>

\* memcpy of can_fds and select().  res is "ok" or the errno of a failure.
SelectResults == {"ok", "EINTR", "EBADF"}

thr_select(res) ==
    LET ready == Readable(can_fds) IN
    /\ thr_pc = "select"
    /\ alloc
    /\ UNCHANGED <<thr_ret, cancel_pending, uaf>>
    /\ UNCHANGED <<handle_vars, kernel_vars, caller_vars, bad_use, netlink_vars, tx_vars>>
    /\ IF res = "EINTR" THEN
           /\ thr_sel' = res
           /\ thr_pc' = "unlock"
           /\ UNCHANGED <<thr_fds, thr_cur, thr_freed, calls>>
       ELSE IF res # "ok" THEN
           /\ thr_sel' = res
           /\ calls' = calls \o ldx_can_call_err_cb(err_cb_list, res)
           /\ thr_pc' = "unlock"
           /\ UNCHANGED <<thr_fds, thr_cur, thr_freed>>
       ELSE IF ready = {} THEN
           /\ thr_sel' = "timeout"
           /\ thr_pc' = "unlock"
           /\ thr_fds' = {}
           /\ UNCHANGED <<thr_cur, thr_freed, calls>>
       ELSE
           /\ thr_sel' = "ready"
           /\ thr_fds' = ready
           /\ thr_freed' = FALSE
           /\ thr_cur' = IF rx_cb_list = <<>> THEN -1 ELSE rx_cb_list[1].rx_skt
           /\ thr_pc' = IF rx_cb_list = <<>> THEN "tx" ELSE "rx"
           /\ UNCHANGED calls

\* One pass of the body of list_for_each_entry(rx_cb, ...) with at most one
\* recvmsg of ldx_can_process_rx_socket.  out is what reading a freed entry
\* leads to.
thr_rx(out) ==
    LET i == CHOOSE k \in 1..Len(rx_cb_list) : rx_cb_list[k].rx_skt = thr_cur
        fd == thr_cur
        advance == IF i < Len(rx_cb_list)
                   THEN /\ thr_cur' = rx_cb_list[i + 1].rx_skt
                        /\ thr_pc' = "rx"
                   ELSE /\ thr_cur' = -1
                        /\ thr_pc' = "tx"
    IN
    /\ thr_pc = "rx"
    /\ alloc
    /\ UNCHANGED <<thr_fds, thr_freed, thr_sel, cancel_pending>>
    /\ UNCHANGED <<alloc, life, cfg, tx_skt, can_thr, mutex_st, mutex_owner,
                   can_fds, maxfd, rx_cb_list, err_cb_list>>
    /\ UNCHANGED <<open_fds, arrived, caller_vars, bad_use, netlink_vars, tx_vars>>
    /\ IF thr_freed THEN
           /\ uaf' = TRUE
           /\ thr_pc' = out
           /\ UNCHANGED <<thr_cur, thr_ret, calls, dropped_frames, rxq, skerr>>
       ELSE IF fd \notin thr_fds THEN
           /\ advance
           /\ UNCHANGED <<thr_ret, calls, dropped_frames, rxq, skerr, uaf>>
       ELSE IF fd \in skerr THEN
           \* recvmsg fails with ENETDOWN
           /\ skerr' = skerr \ {fd}
           /\ thr_ret' = -CAN_ERROR_NETWORK_DOWN
           /\ advance
           /\ UNCHANGED <<calls, dropped_frames, rxq, uaf>>
       ELSE IF rxq[fd] = <<>> THEN
           \* recvmsg finds no more data
           /\ thr_ret' = 0
           /\ advance
           /\ UNCHANGED <<calls, dropped_frames, rxq, skerr, uaf>>
       ELSE
           /\ rxq' = [rxq EXCEPT ![fd] = Tail(@)]
           /\ dropped_frames' = IF cfg.process_header /\ Head(rxq[fd]).dropf # 0
                                THEN Head(rxq[fd]).dropf ELSE dropped_frames
           /\ calls' = calls \o ProcessRxFrame(Head(rxq[fd]), rx_cb_list[i].handler,
                                               cfg.process_header, err_cb_list)
           /\ UNCHANGED <<thr_pc, thr_cur, thr_ret, skerr, uaf>>

\* if (FD_ISSET(pdata->tx_skt, &fds)) with at most one recvmsg of
\* ldx_can_process_tx_socket.
thr_tx ==
    /\ thr_pc = "tx"
    /\ alloc
    /\ UNCHANGED <<thr_fds, thr_cur, thr_freed, thr_sel, cancel_pending, uaf>>
    /\ UNCHANGED <<handle_vars, open_fds, arrived, caller_vars, bad_use, netlink_vars, tx_vars>>
    /\ IF tx_skt \notin thr_fds THEN
           /\ thr_pc' = "unlock"
           /\ UNCHANGED <<thr_ret, calls, rxq, skerr>>
       ELSE IF tx_skt \in skerr THEN
           /\ skerr' = skerr \ {tx_skt}
           /\ thr_ret' = -CAN_ERROR_NETWORK_DOWN
           /\ thr_pc' = "unlock"
           /\ UNCHANGED <<calls, rxq>>
       ELSE IF rxq[tx_skt] = <<>> THEN
           /\ thr_ret' = 0
           /\ thr_pc' = "unlock"
           /\ UNCHANGED <<calls, rxq, skerr>>
       ELSE
           /\ rxq' = [rxq EXCEPT ![tx_skt] = Tail(@)]
           /\ calls' = calls \o ProcessTxFrame(Head(rxq[tx_skt]), err_cb_list)
           /\ UNCHANGED <<thr_pc, thr_ret, skerr>>

\* pthread_mutex_unlock at the end of the iteration and sched_yield.  The
\* locals of the iteration (fds, rx_cb, ret) and the record of the calls it
\* made end with it.
thr_unlock ==
    /\ thr_pc = "unlock"
    /\ alloc
    /\ pthread_mutex_unlock
    /\ thr_pc' = "check"
    /\ thr_fds' = {}
    /\ thr_cur' = -1
    /\ thr_freed' = FALSE
    /\ thr_ret' = 0
    /\ thr_sel' = "none"
    /\ calls' = <<>>
    /\ UNCHANGED <<cancel_pending, uaf>>
    /\ UNCHANGED <<alloc, life, cfg, dropped_frames, tx_skt, can_thr, mutex_st,
                   can_fds, maxfd, rx_cb_list, err_cb_list>>
    /\ UNCHANGED <<kernel_vars, caller_vars, bad_use, netlink_vars, tx_vars>>

\* A callback the dispatch thread has called in this iteration calls a
\* register or unregister function on the handle: the thread, which holds
\* the mutex since can.c:310, reaches the pthread_mutex_lock of that
\* function (can.c:727, 770, 824, 1002).
thr_callback_registers ==
    /\ thr_pc \in {"rx", "tx", "unlock"}
    /\ alloc
    /\ calls # <<>>
    /\ thr_pc' = "cb_lock"
    /\ UNCHANGED <<thr_fds, thr_cur, thr_freed, thr_ret, thr_sel, cancel_pending, calls, uaf>>
    /\ UNCHANGED <<handle_vars, kernel_vars, caller_vars, bad_use, netlink_vars, tx_vars>>

(***************************************************************************)
(* ldx_can_stop and ldx_can_start called by the application on the handle. *)
(* ~ok: the netlink request is rejected; otherwise nl_kern answers.        *)
(***************************************************************************)
ldx_can_stop(c, ok) ==
    LET r == StopResult("cif", cfg.nl_cmd_verify, Rejecting(nl_kern, ok, "can_do_stop"))
    IN
    /\ alloc
    /\ pc[c] = "idle"
    /\ life = "started"
    /\ life' = IF r.ret = CAN_ERROR_NONE THEN "stopped" ELSE life
    /\ last' = [op |-> "stop", cb |-> "none", ret |-> r.ret]
    /\ nl_log' = r.log
    /\ UNCHANGED <<alloc, cfg, dropped_frames, tx_skt, can_thr, mutex_st,
                   mutex_owner, can_fds, maxfd, rx_cb_list, err_cb_list>>
    /\ UNCHANGED <<kernel_vars, thread_vars, pc, arg, n_reg, n_unreg, reg_order, ops,
                   bad_use, nl_kern, tx_vars>>

ldx_can_start(c, ok) ==
    LET r == StartResult("cif", cfg.nl_cmd_verify, Rejecting(nl_kern, ok, "can_do_start"))
    IN
    /\ alloc
    /\ pc[c] = "idle"
    /\ life = "stopped"
    /\ life' = IF r.ret = CAN_ERROR_NONE THEN "started" ELSE life
    /\ last' = [op |-> "start", cb |-> "none", ret |-> r.ret]
    /\ nl_log' = r.log
    /\ UNCHANGED <<alloc, cfg, dropped_frames, tx_skt, can_thr, mutex_st,
                   mutex_owner, can_fds, maxfd, rx_cb_list, err_cb_list>>
    /\ UNCHANGED <<kernel_vars, thread_vars, pc, arg, n_reg, n_unreg, reg_order, ops,
                   bad_use, nl_kern, tx_vars>>

(***************************************************************************)
(* ldx_can_free on a non-null handle.  stop_ok is the outcome of           *)
(* ldx_can_stop; survive says whether pthread_cancel on a thread id read   *)
(* from freed memory returns (it may as well fault).                       *)
(***************************************************************************)
\* What ldx_can_free uses although the handle never created it.
FreeBadUse ==
    (IF mutex_st # "init" THEN {"mutex"} ELSE {})
    \cup (IF can_thr # "valid" THEN {"thread"} ELSE {})
    \cup (IF tx_skt \notin (open_fds \ StdFds) THEN {"socket"} ELSE {})

\* The release part of ldx_can_free (can.c:654-660): stop, close(tx_skt),
\* free(pdata), free(cif).
FreeRelease ==
    /\ IF tx_skt \in open_fds
          THEN CloseFd(tx_skt)
          ELSE UNCHANGED <<open_fds, rxq, skerr>>
    /\ alloc' = FALSE
    /\ life' = "freed"
    /\ UNCHANGED <<rx_cb_list, err_cb_list, can_fds, maxfd, tx_skt>>

ldx_can_free(c, stop_ok, survive) ==
    LET r == StopResult("cif", cfg.nl_cmd_verify,
                        Rejecting(nl_kern, stop_ok, "can_do_stop"))
    IN
    /\ alloc
    /\ pc[c] = "idle"
    /\ life \in {"unbound", "initfailed", "started", "stopped"}
    \* pthread_mutex_lock, then pthread_mutex_destroy of the mutex just
    \* locked (can.c:650-651); no pthread_mutex_unlock follows
    /\ pthread_mutex_lock(c)
    /\ mutex_st' = "destroyed"
    /\ bad_use' = bad_use \cup FreeBadUse
    /\ UNCHANGED <<nl_kern, tx_vars>>
    /\ UNCHANGED <<cfg, dropped_frames, can_thr>>
    /\ UNCHANGED <<arrived, thr_pc, thr_fds, thr_cur, thr_freed, thr_ret, thr_sel, calls, uaf>>
    /\ UNCHANGED <<pc, arg, n_reg, n_unreg, reg_order, ops>>
    /\ IF can_thr = "null" \/ (can_thr = "dangling" /\ ~survive) THEN
           \* pthread_cancel(*pdata->can_thr) dereferences an invalid pointer
           /\ life' = "crashed"
           /\ last' = [op |-> "free", cb |-> "none", ret |-> "fault"]
           /\ UNCHANGED <<alloc, tx_skt, can_fds, maxfd, rx_cb_list, err_cb_list>>
           /\ UNCHANGED <<open_fds, rxq, skerr, cancel_pending, nl_log>>
       ELSE
           /\ cancel_pending' = (can_thr = "valid")
           /\ FreeRelease
           \* ret = ldx_can_stop(cif) ... return ret
           /\ nl_log' = r.log
           /\ last' = [op |-> "free", cb |-> "none", ret |-> r.ret]

(***************************************************************************)
(* The dispatch thread once the handle has been freed under it: every      *)
(* access to pdata reads freed memory.  At the loop test the value read    *)
(* for run_thr is arbitrary (out: go on, leave the loop, or fault); the    *)
(* lock of the destroyed mutex may return or block for ever; select() is   *)
(* a cancellation point, where the pending cancellation ends the thread.   *)
(***************************************************************************)
thr_after_free(out) ==
    /\ ~alloc
    /\ thr_pc \in {"check", "lock", "select"}
    /\ uaf' = TRUE
    /\ thr_pc' = IF thr_pc = "check" THEN out
                 ELSE IF thr_pc = "lock" THEN "select"
                 ELSE "exited"
    /\ UNCHANGED <<thr_fds, thr_cur, thr_freed, thr_ret, thr_sel, cancel_pending, calls>>
    /\ UNCHANGED <<handle_vars, kernel_vars, caller_vars, bad_use, netlink_vars, tx_vars>>

(***************************************************************************)
(* The netlink operations called by the application.                       *)
(***************************************************************************)
\* Caller c calls the operation op of can_netlink.c with the handle h and,
\* for a setter, the value v.  ldx_can_start and ldx_can_stop on the handle
\* itself are the actions of these names above.
NetlinkCall(c, op, h, v) ==
    LET r == NlCall(op, h, cfg.nl_cmd_verify, nl_kern, v) IN
    /\ alloc
    /\ pc[c] = "idle"
    /\ op \in {"start", "stop"} => h = NULL
    /\ last' = [op |-> op, cb |-> h, ret |-> r.ret, val |-> v]
    /\ nl_log' = r.log
    /\ UNCHANGED <<handle_vars, kernel_vars, thread_vars, bad_use, nl_kern, tx_vars>>
    /\ UNCHANGED <<pc, arg, n_reg, n_unreg, reg_order, ops>>

(***************************************************************************)
(* ldx_can_tx_frame.                                                       *)
(***************************************************************************)
\* dlc2len and len2dlc (can.c:40-58); the sequences start at index 1.
dlc2len == <<0, 1, 2, 3, 4, 5, 6, 7, 8, 12, 16, 20, 24, 32, 48, 64>>

len2dlc ==
    <<0, 1, 2, 3, 4, 5, 6, 7, 8,
      9, 9, 9, 9,
      10, 10, 10, 10,
      11, 11, 11, 11,
      12, 12, 12, 12,
      13, 13, 13, 13, 13, 13, 13, 13,
      14, 14, 14, 14, 14, 14, 14, 14,
      14, 14, 14, 14, 14, 14, 14, 14,
      15, 15, 15, 15, 15, 15, 15, 15,
      15, 15, 15, 15, 15, 15, 15, 15>>

\* A faulty conversion that gives the length code back as the length.
can_dlc2len_code(can_dlc) == can_dlc % 16

\* can_dlc2len: dlc2len[can_dlc & 0x0F].
can_dlc2len(can_dlc) == dlc2len[(can_dlc % 16) + 1]

\* The macro CAN_LEN2DLC.
CAN_LEN2DLC(len) == IF len > 64 THEN 15 ELSE len2dlc[len + 1]

\* What write() on the transmit socket may give: -1 with an errno, or the
\* number of bytes written.
WriteOutcomes ==
    { [ret |-> -1, errno |-> e] : e \in {"ENOBUFS", "EAGAIN", "EINVAL"} }
    \cup { [ret |-> n, errno |-> "none"] : n \in {0, CAN_MTU, CANFD_MTU} }

\* The value ldx_can_tx_frame returns for the outcome w of its write of mtu
\* bytes (can.c:682-699).
TxResult(mtu, w) ==
    IF w.ret = -1 THEN
        (IF w.errno \in {"ENOBUFS", "EAGAIN"}
         THEN -CAN_ERROR_TX_RETRY_LATER
         ELSE EXIT_SUCCESS)
    ELSE IF w.ret < 0 THEN -CAN_ERROR_TX_SKT_WR
    ELSE IF w.ret < mtu THEN -CAN_ERROR_INCOMP_FRAME
    ELSE EXIT_SUCCESS

\* A faulty transmission that waits until the mutex of the handle is free.
ldx_can_tx_frame_locked(c, h, len, w) ==
    LET canfd == cfg.canfd_enabled
        mtu == IF canfd THEN CANFD_MTU ELSE CAN_MTU
        wlen == IF canfd THEN can_dlc2len(CAN_LEN2DLC(len)) ELSE len
    IN
    /\ alloc
    /\ pc[c] = "idle"
    /\ mutex_owner = "none"
    /\ h # NULL => life \in {"started", "stopped"}
    /\ n_tx < MaxTx
    /\ n_tx' = n_tx + 1
    /\ UNCHANGED <<handle_vars, kernel_vars, thread_vars, bad_use, netlink_vars>>
    /\ UNCHANGED <<pc, arg, n_reg, n_unreg, reg_order, ops>>
    /\ IF h = NULL THEN
           /\ last' = [op |-> "tx", cb |-> h, ret |-> -CAN_ERROR_NULL_INTERFACE]
           /\ tx_wr' = <<>>
       ELSE
           /\ w.ret <= mtu
           /\ tx_wr' = <<[arg_len |-> len, len |-> wlen, size |-> mtu, w |-> w]>>
           /\ last' = [op |-> "tx", cb |-> h, ret |-> TxResult(mtu, w)]

\* Caller c sends a frame of payload length len through the handle h; w is
\* the outcome of the write.  The call does not take the mutex.
ldx_can_tx_frame(c, h, len, w) ==
    LET canfd == cfg.canfd_enabled
        mtu == IF canfd THEN CANFD_MTU ELSE CAN_MTU
        wlen == IF canfd THEN can_dlc2len(CAN_LEN2DLC(len)) ELSE len
    IN
    /\ alloc
    /\ pc[c] = "idle"
    /\ h # NULL => life \in {"started", "stopped"}
    /\ n_tx < MaxTx
    /\ n_tx' = n_tx + 1
    /\ UNCHANGED <<handle_vars, kernel_vars, thread_vars, bad_use, netlink_vars>>
    /\ UNCHANGED <<pc, arg, n_reg, n_unreg, reg_order, ops>>
    /\ IF h = NULL THEN
           /\ last' = [op |-> "tx", cb |-> h, ret |-> -CAN_ERROR_NULL_INTERFACE]
           /\ tx_wr' = <<>>
       ELSE
           /\ w.ret <= mtu
           /\ tx_wr' = <<[arg_len |-> len, len |-> wlen, size |-> mtu, w |-> w]>>
           /\ last' = [op |-> "tx", cb |-> h, ret |-> TxResult(mtu, w)]

(***************************************************************************)
(* Specifications.                                                         *)
(***************************************************************************)
\* The steps of the dispatch thread.
ThreadStep ==
    \/ thr_check
    \/ thr_lock
    \/ \E res \in SelectResults : thr_select(res)
    \/ \E out \in {"unlock", "crashed"} : thr_rx(out)
    \/ thr_tx
    \/ thr_unlock

\* The register/unregister calls of the callers in cs.
RegistryStep(cs) ==
    \/ \E c \in cs, op \in RegistryOps, cb \in RxCbs \cup ErrCbs :
            BeginCall(c, op, cb)
    \/ \E c \in cs, fail \in RegRxFailPoints : ldx_can_register_rx_handler(c, fail)
    \/ \E c \in cs : ldx_can_unregister_rx_handler(c)
    \/ \E c \in cs, fail \in {"malloc", "none"} :
            ldx_can_register_error_handler(c, fail)
    \/ \E c \in cs : ldx_can_unregister_error_handler(c)

\* The register calls alone, all their steps succeeding.
RegisterStep(c) ==
    \/ \E op \in {"reg_rx", "reg_err"}, cb \in RxCbs \cup ErrCbs : BeginCall(c, op, cb)
    \/ ldx_can_register_rx_handler(c, "none")
    \/ ldx_can_register_error_handler(c, "none")

\* Spec: the registry under concurrency.  Two callers register and
\* unregister while the dispatch thread runs and the interface may go down.
Next ==
    \/ \E c \in Callers, fail \in InitFailPoints :
            ldx_can_init(c, ldx_can_set_defconfig, fail)
    \/ RegistryStep(Callers)
    \/ NetworkDown
    \/ ThreadStep

Spec == Init /\ [][Next]_vars

\* SpecLife: the lifecycle of the handle.  One caller initialises, registers,
\* stops, starts and frees the handle; the thread goes on after the free.
NextLife ==
    \/ \E fail \in InitFailPoints : ldx_can_init("c1", ldx_can_set_defconfig, fail)
    \/ RegistryStep({"c1"})
    \/ \E ok \in BOOLEAN : ldx_can_stop("c1", ok)
    \/ \E ok \in BOOLEAN : ldx_can_start("c1", ok)
    \/ \E stop_ok \in BOOLEAN, survive \in BOOLEAN : ldx_can_free("c1", stop_ok, survive)
    \/ NetworkDown
    \/ ThreadStep
    \/ \E out \in {"lock", "exited", "crashed"} : thr_after_free(out)

SpecLife == Init /\ [][NextLife]_vars

\* SpecDisp: frame dispatch.  One caller initialises the handle with either
\* setting of header processing and registers callbacks; the bus delivers
\* frames to the sockets and the dispatch thread processes them.
NextDisp ==
    \/ \E cfgin \in Cfgs : ldx_can_init("c1", cfgin, "none")
    \/ RegisterStep("c1")
    \/ \E fd \in FdUniverse, f \in Frames : FrameArrives(fd, f)
    \/ ThreadStep

SpecDisp == Init /\ [][NextDisp]_vars

\* SpecDown: frame dispatch on an interface that may go down.  One caller
\* initialises the handle and registers callbacks; the bus delivers data
\* frames to the receive sockets, the interface may go down, and the
\* dispatch thread processes the sockets.
NextDown ==
    \/ ldx_can_init("c1", ldx_can_set_defconfig, "none")
    \/ RegisterStep("c1")
    \/ \E fd \in FdUniverse : FrameArrives(fd, [id |-> "f1", err |-> FALSE, dropf |-> 0])
    \/ NetworkDown
    \/ ThreadStep

SpecDown == Init /\ [][NextDown]_vars

\* The configurations of SpecNl: the default one, with and without
\* verification of the netlink commands.
NlCfgs == { [ldx_can_set_defconfig EXCEPT !.nl_cmd_verify = v] : v \in BOOLEAN }

\* SpecNl: the operations of can_netlink.c.  One caller initialises the
\* handle and calls the operations, on the handle and on a null handle; the
\* kernel answers in any one way.
NextNl ==
    \/ \E cfgin \in NlCfgs : ldx_can_init("c1", cfgin, "none")
    \/ \E op \in NlOps, h \in Handles, v \in Values : NetlinkCall("c1", op, h, v)

SpecNl == InitNl /\ [][NextNl]_vars

\* The configurations of SpecInit: every combination of configured and
\* unconfigured parameters, with and without verification and FD.
InitCfgs ==
    [nl_cmd_verify : BOOLEAN, canfd_enabled : BOOLEAN, process_header : {TRUE},
     bitrate : Values, dbitrate : Values, restart_ms : Values,
     bit_timing : Values, ctrl_mode : Values]

\* SpecInit: configuration and start.  One caller initialises the handle
\* once with any configuration, then stops, starts and restarts the
\* interface; the kernel answers in any one way.
NextInit ==
    \/ \E cfgin \in InitCfgs : life = "unbound" /\ ldx_can_init("c1", cfgin, "none")
    \/ \E ok \in BOOLEAN : ldx_can_stop("c1", ok)
    \/ \E ok \in BOOLEAN : ldx_can_start("c1", ok)
    \/ NetlinkCall("c1", "restart", "cif", 0)

SpecInit == InitNl /\ [][NextInit]_vars

\* The configurations of SpecTx: the default one, with and without FD.
TxCfgs == { [ldx_can_set_defconfig EXCEPT !.canfd_enabled = fd] : fd \in BOOLEAN }

\* SpecTx: transmission.  One caller initialises the handle, with FD or
\* without, and sends a frame of any payload length, or sends through a
\* null handle; the write ends in every way.
NextTx ==
    \/ \E cfgin \in TxCfgs : ldx_can_init("c1", cfgin, "none")
    \/ \E len \in 0..U8_MAX, w \in WriteOutcomes : ldx_can_tx_frame("c1", "cif", len, w)
    \/ \E w \in WriteOutcomes : ldx_can_tx_frame("c1", NULL, 0, w)

SpecTx == Init /\ [][NextTx]_vars

\* SpecConc: the callers and the dispatch thread side by side.  Caller c1
\* initialises the handle, registers and unregisters callbacks; the bus
\* delivers a data frame to the sockets; the dispatch thread processes them
\* and a callback it calls may itself call a register or unregister
\* function; caller c2 sends a frame, written in full, at any moment.
NextConc ==
    \/ ldx_can_init("c1", ldx_can_set_defconfig, "none")
    \/ RegistryStep({"c1"})
    \/ \E fd \in FdUniverse : FrameArrives(fd, [id |-> "f1", err |-> FALSE, dropf |-> 0])
    \/ ThreadStep
    \/ thr_callback_registers
    \/ ldx_can_tx_frame("c2", "cif", 8, [ret |-> CAN_MTU, errno |-> "none"])

SpecConc == Init /\ [][NextConc]_vars

(***************************************************************************)
(* Properties of the callback registry (Spec).                             *)
(***************************************************************************)
RxHandlers(list) == { list[i].handler : i \in 1..Len(list) }

\* C1: while register and unregister calls interleave with the running
\* dispatch loop, each list holds exactly (successful registers - successful
\* unregisters) entries, the error list one more for the default handler,
\* and the dispatch loop never reads an entry that was unlinked and freed.
C1_RegistryConsistent ==
    /\ life \in {"started", "stopped"} =>
          /\ Len(rx_cb_list) = n_reg["rx"] - n_unreg["rx"]
          /\ Len(err_cb_list) = n_reg["err"] - n_unreg["err"] + 1
    /\ ~uaf

\* The dispatch loop is visiting an entry of the receive list after two
\* registrations and one unregistration went through.
C1_Witness ==
    /\ thr_pc = "rx"
    /\ thr_cur \in { rx_cb_list[i].rx_skt : i \in 1..Len(rx_cb_list) }
    /\ n_reg["rx"] = 2
    /\ n_unreg["rx"] = 1

\* No callback identity appears twice in a list.
NoDuplicates ==
    /\ \A i, j \in 1..Len(rx_cb_list) :
          rx_cb_list[i].handler = rx_cb_list[j].handler => i = j
    /\ \A i, j \in 1..Len(err_cb_list) : err_cb_list[i] = err_cb_list[j] => i = j

\* A register call for a callback that is already in its list returns.
DuplicateRegisterReturns(c) ==
    /\ pc'[c] = "idle"
    /\ \/ pc[c] = "reg_rx" /\ arg[c] \in RxHandlers(rx_cb_list)
       \/ pc[c] = "reg_err" /\ arg[c] \in Range(err_cb_list)

\* C2: each list holds at most one entry per callback identity, and a
\* register call for an identity already present returns the list's
\* "already registered" error and changes nothing: no entry added, no socket
\* opened, readiness set and maxfd unchanged, mutex released.
C2_DuplicateRejected ==
    /\ []NoDuplicates
    /\ [][\A c \in Callers : DuplicateRegisterReturns(c) =>
            /\ last'.ret = IF pc[c] = "reg_rx" THEN -CAN_ERROR_RX_CB_ALR_REG
                                               ELSE -CAN_ERROR_ERR_CB_ALR_REG
            /\ rx_cb_list' = rx_cb_list
            /\ err_cb_list' = err_cb_list
            /\ open_fds' = open_fds
            /\ can_fds' = can_fds
            /\ maxfd' = maxfd
            /\ mutex_owner' = "none"]_vars

\* A duplicate receive registration has just been rejected.
C2_Witness ==
    /\ last.op = "reg_rx"
    /\ last.ret = -CAN_ERROR_RX_CB_ALR_REG
    /\ last.cb \in RxHandlers(rx_cb_list)

\* The descriptors of the entries of list whose handler is cb.
SocketsOf(list, cb) ==
    { list[i].rx_skt : i \in { k \in 1..Len(list) : list[k].handler = cb } }

\* C3: when unregister_rx_handler(cb) finds cb, then on return the receive
\* list has no entry for cb and the entry's socket is out of the readiness
\* set and closed; when cb is not registered the call returns the "not
\* found" error and changes nothing.
C3_UnregisterRemoves ==
    [][\A c \in Callers : (pc[c] = "unreg_rx" /\ pc'[c] = "idle") =>
          IF arg[c] \in RxHandlers(rx_cb_list)
          THEN /\ last'.ret = 0
               /\ arg[c] \notin RxHandlers(rx_cb_list')
               /\ \A fd \in SocketsOf(rx_cb_list, arg[c]) :
                     fd \notin can_fds' /\ fd \notin open_fds'
          ELSE /\ last'.ret = -CAN_ERROR_RX_CB_NOT_FOUND
               /\ UNCHANGED <<rx_cb_list, err_cb_list, can_fds, maxfd, open_fds>>]_vars

\* A registered receive callback has just been unregistered.
C3_Witness ==
    /\ last.op = "unreg_rx"
    /\ last.ret = 0
    /\ n_reg["rx"] >= 1
    /\ last.cb \notin RxHandlers(rx_cb_list)

(***************************************************************************)
(* Properties of ldx_can_free (SpecLife).                                  *)
(***************************************************************************)
\* C4: after ldx_can_free on an initialised handle the dispatch thread has
\* terminated (it was joined) before the handle's memory is released, and
\* it never reads or writes the handle's state afterwards.
C4_ThreadJoinedBeforeRelease ==
    (life = "freed" /\ thr_pc # "none") => (thr_pc = "exited" /\ ~uaf)

\* C5: after ldx_can_free no descriptor opened by the handle remains open
\* and no entry of either callback list remains allocated.
C5_FreeReleasesEverything ==
    life = "freed" =>
        /\ open_fds \ StdFds = {}
        /\ rx_cb_list = <<>>
        /\ err_cb_list = <<>>

\* C6: from every lifecycle state ldx_can_free completes and releases the
\* handle, and uses no thread, mutex or socket that was never created.
C6_FreeFromEveryState ==
    last.op = "free" => (life = "freed" /\ ~alloc /\ bad_use = {})

(***************************************************************************)
(* Properties of the dispatch of frames (SpecDisp).                        *)
(***************************************************************************)
\* Position of x in the sequence s.
Pos(s, x) == CHOOSE i \in 1..Len(s) : s[i] = x

ErrCalls == SelectSeq(calls, LAMBDA e : e.kind = "err")

RxCalls == SelectSeq(calls, LAMBDA e : e.kind = "rx")

RxFrameStep ==
    /\ thr_pc = "rx"
    /\ rxq[thr_cur] # <<>>
    /\ rxq' = [rxq EXCEPT ![thr_cur] = Tail(@)]

\* The calls a step added to the record of the iteration.
NewCalls == SubSeq(calls', Len(calls) + 1, Len(calls'))

\* The calls that notify every error callback of code, in list order.
Notified(code) ==
    [i \in 1..Len(err_cb_list) |-> [kind |-> "err", cb |-> err_cb_list[i], code |-> code]]

\* C8: for a frame with the error flag every error callback is called with
\* the frame's identifier and the receive callback is not called; for any
\* other frame the receive callback is called with the frame and no error
\* callback is called with the frame's identifier.
C8_ErrorFrameInsteadOfReceive ==
    [][RxFrameStep =>
        LET f == Head(rxq[thr_cur])
            h == rx_cb_list[Pos([i \in 1..Len(rx_cb_list) |-> rx_cb_list[i].rx_skt],
                                thr_cur)].handler
            about == SelectSeq(NewCalls, LAMBDA e : e.code = f.id)
        IN IF f.err
           THEN about = Notified(f.id)
           ELSE about = <<[kind |-> "rx", cb |-> h, code |-> f.id]>>]_vars

\* C9: when a receive on a registered receive socket or on the transmit
\* socket fails with ENETDOWN, every registered error callback is called
\* with the network-down error.  (SpecDown: the interface goes down.)
C9_NetworkDownNotified ==
    thr_ret = -CAN_ERROR_NETWORK_DOWN =>
        \A h \in Range(err_cb_list) :
            \E i \in 1..Len(calls) :
                calls[i] = [kind |-> "err", cb |-> h, code |-> "CAN_ERROR_NETWORK_DOWN"]

\* C10: with header processing enabled, a frame whose ancillary data carries
\* a dropped-frame count d # 0 sets dropped_frames to d and has every error
\* callback called with CAN_ERROR_DROPPED_FRAMES before the frame reaches
\* the receive callback; with a count of zero or header processing disabled
\* the counter is unchanged and no such call is made.
C10_DroppedFrames ==
    [][RxFrameStep =>
        LET f == Head(rxq[thr_cur])
            n == Len(err_cb_list)
            drops == { i \in 1..Len(NewCalls) :
                          NewCalls[i].code = "CAN_ERROR_DROPPED_FRAMES" }
        IN IF cfg.process_header /\ f.dropf # 0
           THEN /\ dropped_frames' = f.dropf
                /\ drops = 1..n
                /\ SubSeq(NewCalls, 1, n) = Notified("CAN_ERROR_DROPPED_FRAMES")
                /\ \E i \in (n + 1)..Len(NewCalls) :
                      NewCalls[i].kind = "rx" /\ NewCalls[i].code = f.id
           ELSE /\ dropped_frames' = dropped_frames
                /\ drops = {}]_vars

\* A frame with a dropped-frame count has been processed with header
\* processing enabled and an error callback registered by the application.
C10_Witness ==
    /\ cfg.process_header
    /\ dropped_frames = 7
    /\ Len(err_cb_list) >= 2
    /\ \E i, j \in 1..Len(calls) :
          /\ i < j
          /\ calls[i].code = "CAN_ERROR_DROPPED_FRAMES"
          /\ calls[j].kind = "rx"

(***************************************************************************)
(* Properties of the netlink operations (SpecNl).                          *)
(***************************************************************************)
\* For each setter: its set request, the request that reads the value back,
\* and its three error codes (set, get, mismatch).
SetterTable ==
    [ set_bitrate |->
        [set |-> "can_set_bitrate", get |-> "can_get_bittiming",
         e_set |-> CAN_ERROR_NL_BITRATE, e_get |-> CAN_ERROR_NL_GET_BIT_TIMING,
         e_mis |-> CAN_ERROR_NL_BR_MISSMATCH],
      set_data_bitrate |->
        [set |-> "can_set_data_bitrate", get |-> "can_get_data_bittiming",
         e_set |-> CAN_ERROR_NL_BITRATE, e_get |-> CAN_ERROR_NL_GET_BIT_TIMING,
         e_mis |-> CAN_ERROR_NL_BR_MISSMATCH],
      set_restart_ms |->
        [set |-> "can_set_restart_ms", get |-> "can_get_restart_ms",
         e_set |-> CAN_ERROR_NL_SET_RESTART_MS, e_get |-> CAN_ERROR_NL_GET_RESTART_MS,
         e_mis |-> CAN_ERROR_NL_RSTMS_MISSMATCH],
      set_bit_timing |->
        [set |-> "can_set_bittiming", get |-> "can_get_bittiming",
         e_set |-> CAN_ERROR_NL_SET_BIT_TIMING, e_get |-> CAN_ERROR_NL_GET_BIT_TIMING,
         e_mis |-> CAN_ERROR_NL_BT_MISSMATCH],
      set_data_bit_timing |->
        [set |-> "can_set_data_bittiming", get |-> "can_get_data_bittiming",
         e_set |-> CAN_ERROR_NL_SET_BIT_TIMING, e_get |-> CAN_ERROR_NL_GET_BIT_TIMING,
         e_mis |-> CAN_ERROR_NL_BT_MISSMATCH],
      set_ctrlmode |->
        [set |-> "can_set_ctrlmode", get |-> "can_get_ctrlmode",
         e_set |-> CAN_ERROR_NL_SET_CTRL_MODE, e_get |-> CAN_ERROR_NL_GET_CTRL_MODE,
         e_mis |-> CAN_ERROR_NL_CTRL_MISSMATCH] ]

\* C11: a setter called on a handle with verification enabled returns its
\* set error, with no read-back issued, when the set request fails; its get
\* error when the set succeeds and the read-back fails; its mismatch error
\* when both succeed and the value read differs from the value requested;
\* and success only when the value read equals the value requested.  The
\* three error codes of a setter are pairwise distinct.
C11_SetterVerifies ==
    [][(last'.op \in NlSetters /\ last'.cb = "cif" /\ cfg.nl_cmd_verify) =>
        LET t == SetterTable[last'.op]
            v == last'.val
            r == last'.ret
        IN /\ nl_kern.fail = t.set => (r = -t.e_set /\ nl_log' = <<t.set>>)
           /\ (nl_kern.fail # t.set /\ nl_kern.fail = t.get) => r = -t.e_get
           /\ (nl_kern.fail \notin {t.set, t.get} /\ KernelReads(nl_kern, v) # v)
                 => r = -t.e_mis
           /\ r = CAN_ERROR_NONE =>
                 /\ nl_kern.fail \notin {t.set, t.get}
                 /\ KernelReads(nl_kern, v) = v
                 /\ nl_log' = <<t.set, t.get>>
           /\ Cardinality({t.e_set, t.e_get, t.e_mis}) = 3
           /\ CAN_ERROR_NONE \notin {t.e_set, t.e_get, t.e_mis}]_vars

\* The control mode has been set and read back on a handle with
\* verification, and the mode read differs from the mode requested.
C11_Witness ==
    /\ last.op = "set_ctrlmode"
    /\ last.cb = "cif"
    /\ cfg.nl_cmd_verify
    /\ nl_kern.skew # 0
    /\ nl_log = <<"can_set_ctrlmode", "can_get_ctrlmode">>
    /\ last.ret = -CAN_ERROR_NL_CTRL_MISSMATCH

(***************************************************************************)
(* Properties of the configuration and start in ldx_can_init (SpecInit).   *)
(***************************************************************************)
\* A step of ldx_can_init on the handle as requested; cfg' is the
\* configuration it was given, nl_log' the netlink requests it issued.
InitStep == life = "unbound" /\ last'.op = "init"

\* For each parameter of the configuration: its set request and the request
\* that reads it back.
ParamTable ==
    [ bitrate    |-> [set |-> "can_set_bitrate",      get |-> "can_get_bittiming"],
      dbitrate   |-> [set |-> "can_set_data_bitrate", get |-> "can_get_data_bittiming"],
      restart_ms |-> [set |-> "can_set_restart_ms",   get |-> "can_get_restart_ms"],
      bit_timing |-> [set |-> "can_set_bittiming",    get |-> "can_get_bittiming"],
      ctrl_mode  |-> [set |-> "can_set_ctrlmode",     get |-> "can_get_ctrlmode"] ]

\* C12: ldx_can_init writes a parameter to the interface if and only if its
\* field in the configuration is not at the unconfigured value (when no
\* earlier request failed, so that the interface was started); a parameter
\* left unconfigured is never written; with verification every parameter
\* written is read back next.
C12_InitSetsConfigured ==
    [][InitStep =>
        \A p \in DOMAIN ParamTable :
            LET t == ParamTable[p]
                written == \E i \in 1..Len(nl_log') : nl_log'[i] = t.set
            IN /\ cfg'[p] = 0 => ~written
               /\ ("can_do_start" \in Range(nl_log') /\ cfg'[p] # 0) => written
               /\ cfg'.nl_cmd_verify =>
                     \A i \in 1..Len(nl_log') :
                         (nl_log'[i] = t.set /\ i < Len(nl_log')) => nl_log'[i + 1] = t.get]_vars

\* For start, stop and restart: the request and the state expected after it.
StateTable ==
    [ start   |-> [req |-> "can_do_start",   expected |-> "CAN_STATE_ERROR_ACTIVE"],
      stop    |-> [req |-> "can_do_stop",    expected |-> "CAN_STATE_STOPPED"],
      restart |-> [req |-> "can_do_restart", expected |-> "CAN_STATE_ERROR_ACTIVE"] ]

\* The error codes the setters return.
SetterErrors ==
    UNION { {-SetterTable[o].e_set, -SetterTable[o].e_get, -SetterTable[o].e_mis} :
            o \in NlSetters }

C14_NullHandleRejected ==
    (last.op \in NlOps /\ last.cb = NULL) =>
        /\ last.ret = -CAN_ERROR_NULL_INTERFACE
        /\ nl_log = <<>>

\* The interface state has been asked for through a null handle while the
\* kernel would have rejected the request.
C14_Witness ==
    /\ last.op = "get_state"
    /\ last.cb = NULL
    /\ nl_kern.fail = "can_get_state"
    /\ last.ret = -CAN_ERROR_NULL_INTERFACE

(***************************************************************************)
(* Properties of ldx_can_tx_frame (SpecTx).                                *)
(***************************************************************************)
\* ldx_can_tx_frame has written a frame to the transmit socket.
Sent == last.op = "tx" /\ last.cb # NULL /\ tx_wr # <<>>

\* C15: ldx_can_tx_frame returns success only when the write accepted the
\* whole frame; a write failing with ENOBUFS or EAGAIN gives the retry-later
\* error, a write of fewer bytes than the frame size the incomplete-frame
\* error, and a write failing for any other reason a negative error code.
C15_TxResult ==
    Sent =>
        LET e == tx_wr[1] IN
        /\ last.ret = EXIT_SUCCESS => e.w.ret = e.size
        /\ (e.w.ret = -1 /\ e.w.errno \in {"ENOBUFS", "EAGAIN"})
              => last.ret = -CAN_ERROR_TX_RETRY_LATER
        /\ (e.w.ret >= 0 /\ e.w.ret < e.size) => last.ret = -CAN_ERROR_INCOMP_FRAME
        /\ e.w.ret < 0 => last.ret < 0

\* The canonical payload lengths of CAN FD.
CanonicalLengths == {0, 1, 2, 3, 4, 5, 6, 7, 8, 12, 16, 20, 24, 32, 48, 64}

\* The smallest canonical length that is at least L, 64 for a larger L.
Canonical(L) ==
    IF L > 64 THEN 64
    ELSE CHOOSE x \in CanonicalLengths :
            x >= L /\ \A y \in CanonicalLengths : y >= L => x <= y

\* C16: on an FD handle the length written is the canonical length of the
\* length given: the smallest canonical length that is at least the given
\* one, 64 for a larger one.  Canonicalizing is idempotent and leaves a
\* canonical length as it is.
C16_CanonicalLength ==
    (Sent /\ cfg.canfd_enabled) =>
        LET e == tx_wr[1] IN
        /\ e.len = Canonical(e.arg_len)
        /\ can_dlc2len(CAN_LEN2DLC(e.len)) = e.len
        /\ e.arg_len \in CanonicalLengths => e.len = e.arg_len

\* A frame given with 13 bytes of payload went out on an FD handle.
C16_Witness ==
    /\ Sent
    /\ cfg.canfd_enabled
    /\ tx_wr[1].arg_len = 13
    /\ tx_wr[1].len = 16
    /\ tx_wr[1].size = CANFD_MTU

\* C17: on a handle without FD a frame with a payload length above 8 does
\* not reach the write unchanged: it is rejected before, or its length is
\* cut to 8.
C17_ClassicLengthPolicy ==
    (Sent /\ ~cfg.canfd_enabled) =>
        (tx_wr[1].arg_len > 8 => tx_wr[1].len = 8)

(***************************************************************************)
(* FD on an interface that is not FD capable (SpecInit).                   *)
(***************************************************************************)
\* The error codes of ldx_can_start.
StartErrors ==
    {-CAN_ERROR_NL_START, -CAN_ERROR_NL_GET_STATE, -CAN_ERROR_NL_STATE_MISSMATCH}

\* C18: when ldx_can_init is given a configuration with FD enabled, the
\* interface has been configured and started, and its MTU is not the FD
\* MTU, then init returns -CAN_ERROR_NOT_CANFD, the transmit socket is
\* closed again and no dispatch thread is created.
C18_NotFdCapable ==
    [][(/\ InitStep
        /\ cfg'.canfd_enabled
        /\ nl_kern.mtu # CANFD_MTU
        /\ last'.ret \notin SetterErrors \cup StartErrors) =>
            /\ last'.ret = -CAN_ERROR_NOT_CANFD
            /\ open_fds' = open_fds
            /\ can_thr' = "null"
            /\ thr_pc' = "none"
            /\ life' # "started"]_vars

(***************************************************************************)
(* The mutex and the return value of ldx_can_free (SpecLife).              *)
(***************************************************************************)
\* C19: every write of the readiness set, of the maximum descriptor and of
\* the callback lists is made by an operation that holds the mutex, and the
\* dispatch loop holds it during the whole of its iteration, so that none
\* of them changes under it.  (ldx_can_init adds the default handler
\* through ldx_can_register_error_handler, which takes the mutex itself.)
C19_MutexSerializes ==
    [][/\ (can_fds' # can_fds \/ maxfd' # maxfd) => mutex_owner \in Callers
       /\ (rx_cb_list' # rx_cb_list \/ err_cb_list' # err_cb_list) =>
             (mutex_owner \in Callers \/ last'.op = "init")
       /\ (alloc /\ thr_pc \in {"select", "rx", "tx", "unlock"}) =>
             /\ mutex_owner = "thr"
             /\ UNCHANGED <<can_fds, maxfd, rx_cb_list, err_cb_list>>]_vars

\* C20: ldx_can_free returns success whenever it releases the handle, also
\* when the interface could not be stopped.
C20_FreeReturnsSuccess ==
    (last.op = "free" /\ life = "freed") => last.ret = EXIT_SUCCESS

(***************************************************************************)
(* Failures of ldx_can_register_rx_handler and the default error handler   *)
(* (Spec, SpecLife).                                                       *)
(***************************************************************************)
\* The error codes ldx_can_register_rx_handler assigns to the steps that can
\* fail after the duplicate check.
RegRxStepErrors ==
    {-CAN_ERROR_NO_MEM, -CAN_ERROR_RX_SKT_CREATE, -CAN_ERROR_RX_SKT_BIND}

\* A call of ldx_can_register_rx_handler returns r.
RegRxReturns(r) ==
    \E c \in Callers : pc[c] = "reg_rx" /\ pc'[c] = "idle" /\ last'.ret = r

\* C21: a registration of a receive callback that fails after the duplicate
\* check leaves the receive list, the readiness set, maxfd and the open
\* descriptors as they were, releases the mutex and returns the negative
\* error code of the step that failed; an entry and its descriptor appear
\* only when the call succeeds.
C21_RegisterRxFailureClean ==
    [][\A r \in -50..0 :
          RegRxReturns(r) =>
             /\ mutex_owner' = "none"
             /\ (r # CAN_ERROR_NONE) =>
                    /\ UNCHANGED <<rx_cb_list, can_fds, maxfd, open_fds>>
                    /\ r \in RegRxStepErrors \cup {-CAN_ERROR_RX_CB_ALR_REG}
             /\ (r = CAN_ERROR_NONE) =>
                    /\ Len(rx_cb_list') = Len(rx_cb_list) + 1
                    /\ SocketsOf(rx_cb_list', last'.cb) \subseteq can_fds' \cap open_fds']_vars

\* The dispatch thread reports a failure of select() to the error callbacks.
SelectFails == thr_sel = "none" /\ thr_sel' = "EBADF"

\* C22: from a successful ldx_can_init until ldx_can_free the error list
\* contains the default error handler, whatever the application registers
\* and unregisters, so the list is not empty and a fault the dispatch thread
\* reports reaches at least one handler.
C22_DefaultHandlerStays ==
    /\ [](life \in {"started", "stopped"} =>
             /\ ldx_can_default_error_handler \in Range(err_cb_list)
             /\ err_cb_list # <<>>)
    /\ [][SelectFails =>
             \E k \in 1..Len(NewCalls) :
                 /\ NewCalls[k].kind = "err"
                 /\ NewCalls[k].cb = ldx_can_default_error_handler]_vars

C22_Witness ==
    /\ life = "started"
    /\ n_unreg["err"] > 0
    /\ thr_sel = "EBADF"
    /\ \E k \in 1..Len(calls) : calls[k].cb = ldx_can_default_error_handler

(***************************************************************************)
(* Properties of the callers and the dispatch thread side by side          *)
(* (SpecConc).                                                             *)
(***************************************************************************)
\* Caller c2 sends a frame through the handle.
TxFrameCall == ldx_can_tx_frame("c2", "cif", 8, [ret |-> CAN_MTU, errno |-> "none"])

\* C23: ldx_can_tx_frame does not take the mutex: on an initialised handle
\* the call can be made and completes while the dispatch thread or a
\* register/unregister call holds the mutex, and its step leaves the mutex,
\* the readiness set, maxfd and the two callback lists as they are.
C23_TxFrameWithoutMutex ==
    /\ []((life \in {"started", "stopped"} /\ n_tx < MaxTx) => ENABLED TxFrameCall)
    /\ [][n_tx' # n_tx =>
             UNCHANGED <<mutex_owner, mutex_st, can_fds, maxfd, rx_cb_list,
                         err_cb_list>>]_vars

C23_Witness ==
    /\ last.op = "tx"
    /\ mutex_owner = "thr"
    /\ thr_pc \in {"rx", "tx"}
    /\ rx_cb_list # <<>>

(***************************************************************************)
(* Properties of one dispatch iteration (SpecDown).                        *)
(***************************************************************************)
\* The entry of the receive list the cursor of the dispatch thread is at.
CurEntry == CHOOSE k \in 1..Len(rx_cb_list) : rx_cb_list[k].rx_skt = thr_cur

\* The receive callbacks a step called.
NewRxCalls == SelectSeq(NewCalls, LAMBDA e : e.kind = "rx")

\* The dispatch thread leaves the ready socket under its cursor.
LeavesReadySocket ==
    thr_pc = "rx" /\ thr_cur \in thr_fds /\ thr_cur' # thr_cur

\* Within an iteration the frame at the head of a ready receive socket is
\* handed exactly once to the callback of the entry that owns the socket;
\* the cursor goes through the receive list entry by entry, and the
\* transmit socket comes after the last entry.
DeliveryInOrder ==
    /\ (RxFrameStep /\ ~Head(rxq[thr_cur]).err) =>
           NewRxCalls = <<[kind |-> "rx", cb |-> rx_cb_list[CurEntry].handler,
                           code |-> Head(rxq[thr_cur]).id]>>
    /\ (thr_pc = "rx" /\ ~RxFrameStep) => NewRxCalls = <<>>
    /\ thr_pc = "tx" => NewRxCalls = <<>>
    /\ (thr_pc = "select" /\ thr_sel' = "ready") =>
           IF rx_cb_list = <<>>
           THEN thr_pc' = "tx"
           ELSE thr_pc' = "rx" /\ thr_cur' = rx_cb_list[1].rx_skt
    /\ (thr_pc = "rx" /\ thr_cur' # thr_cur) =>
           IF CurEntry < Len(rx_cb_list)
           THEN thr_pc' = "rx" /\ thr_cur' = rx_cb_list[CurEntry + 1].rx_skt
           ELSE thr_pc' = "tx"
    /\ thr_pc = "tx" => thr_pc' \in {"tx", "unlock"}

\* C24 as stated: in an iteration with ready descriptors every data frame
\* queued on a ready receive socket is delivered exactly once, in queue
\* order, to the callback of its own registration, the socket is left only
\* when it has no more data, and the receive sockets come before the
\* transmit socket.
C24_DrainedUntilEmpty ==
    [][/\ DeliveryInOrder
       /\ LeavesReadySocket => rxq[thr_cur] = <<>>]_vars

\* C24, corrected: the same, except that a ready receive socket whose
\* recvmsg fails (the interface went down) is left with its frames still
\* queued; they are delivered in a later iteration.
C24_DrainedUntilEmptyOrError ==
    [][/\ DeliveryInOrder
       /\ LeavesReadySocket => (rxq[thr_cur] = <<>> \/ thr_cur \in skerr)]_vars

C24_Witness ==
    /\ thr_pc = "tx"
    /\ Len(rx_cb_list) = 2
    /\ Len(RxCalls) = 2
    /\ RxCalls[1].cb = RxCalls[2].cb
    /\ rxq[rx_cb_list[1].rx_skt] = <<>>

UnregisterReturns ==
    \E c \in Callers :
        /\ pc[c] \in {"unreg_rx", "unreg_err"}
        /\ pc'[c] = "idle"
        /\ last'.ret = 0

\* The callback of the call e is registered on the handle.
Registered(e) ==
    IF e.kind = "rx" THEN e.cb \in RxHandlers(rx_cb_list)
                     ELSE e.cb \in Range(err_cb_list)

\* C26: the dispatch thread calls only callbacks that are registered at that
\* moment, so a callback whose unregistration has returned success is not
\* called again until it is registered again; and an unregistration does
\* not complete while a dispatch iteration is in progress, the two holding
\* the same mutex.
C26_NoCallAfterUnregister ==
    /\ [](\A k \in 1..Len(calls) : Registered(calls[k]))
    /\ [][/\ \A k \in 1..Len(NewCalls) : Registered(NewCalls[k])
          /\ UnregisterReturns =>
                (thr_pc \in {"none", "check", "lock"} /\ calls = <<>>)]_vars

C26_Witness ==
    /\ last.op = "unreg_rx"
    /\ last.ret = 0
    /\ n_reg["rx"] = 2
    /\ thr_pc = "rx"
    /\ \E k \in 1..Len(calls) : calls[k].kind = "rx"

\* C27: the dispatch thread holds the mutex while it calls the callbacks; a
\* callback that calls a register or unregister function waits for that
\* mutex on the thread that holds it: the wait never ends, the thread takes
\* no further step of its loop, the mutex stays held, and no register or
\* unregister call of any caller gets past its lock.
C27_CallbackReentryDeadlocks ==
    /\ [](calls # <<>> => mutex_owner = "thr")
    /\ [][thr_pc = "cb_lock" =>
             /\ thr_pc' = "cb_lock"
             /\ mutex_owner' = "thr"
             /\ UNCHANGED <<pc, ops, calls, thr_cur, rx_cb_list, err_cb_list>>]_vars

C27_Witness ==
    /\ thr_pc = "cb_lock"
    /\ ops < MaxOps
    /\ arrived = MaxFrames
    /\ rxq[rx_cb_list[1].rx_skt] # <<>>

(***************************************************************************)
(* Properties of the lifecycle of the mutex and of a failed initialisation *)
(* (SpecLife).                                                             *)
(***************************************************************************)
\* A call of ldx_can_init returns.
InitReturns ==
    /\ life \in {"unbound", "initfailed"}
    /\ life' \in {"started", "initfailed"}
    /\ last'.op = "init"

\* C28: a call of ldx_can_init that fails leaves the error list as it was
\* (no default handler stays registered), no closed descriptor in the
\* readiness set and no reference to a thread that does not exist, so that
\* a later ldx_can_init is not bound to fail.
C28_InitFailureLeavesNoTrace ==
    [][(InitReturns /\ life' = "initfailed") =>
          /\ err_cb_list' = err_cb_list
          /\ can_fds' \subseteq open_fds'
          /\ can_thr' # "dangling"]_vars

(***************************************************************************)
(* The readiness set (Spec).                                               *)
(***************************************************************************)
\* The descriptors of the entries of the receive list.
RxSockets == { rx_cb_list[i].rx_skt : i \in 1..Len(rx_cb_list) }

\* C29: on an initialised handle, whatever registrations and
\* unregistrations of receive callbacks have taken place, the readiness set
\* is the transmit socket together with the sockets of the entries of the
\* receive list, and maxfd is at least every descriptor of the set.
C29_ReadinessSetMatchesList ==
    life \in {"started", "stopped"} =>
        /\ can_fds = {tx_skt} \cup RxSockets
        /\ \A fd \in can_fds : maxfd >= fd

C29_Witness ==
    /\ life = "started"
    /\ n_unreg["rx"] = 1
    /\ Len(rx_cb_list) = 1
    /\ maxfd > rx_cb_list[1].rx_skt
    /\ maxfd \notin can_fds

\* ldx_can_init reaches ldx_can_register_error_handler, which locks the
\* mutex (can.c:538, 727).
InitLocks ==
    /\ InitReturns
    /\ (err_cb_list' # err_cb_list \/ last'.ret = -CAN_ERROR_REG_ERR_HDLR)

\* An operation that locks the mutex returns.
LockingCallReturns ==
    /\ last' # last
    /\ last'.op \in RegistryOps \cup {"init", "free"}

\* C30: the mutex is locked and unlocked only between its initialisation
\* and its destruction, it is not destroyed while locked, and an operation
\* that locks it has unlocked it when it returns; this holds for the
\* registration of the default handler inside ldx_can_init and for
\* ldx_can_free.
C30_MutexLifecycle ==
    [][/\ mutex_owner' # mutex_owner => (mutex_st = "init" /\ mutex_st' = "init")
       /\ InitLocks => mutex_st = "init"
       /\ (mutex_st' = "destroyed" /\ mutex_st # "destroyed") => mutex_owner' = "none"
       /\ LockingCallReturns => mutex_owner' = "none"]_vars

====
